---- MODULE Spec2Model ----
(***************************************************************************)
(* A model of the telemetry core of the Mazdaspeed tuning suite:           *)
(*   - MazdaDataManager (mazda_tool/core/data_manager.py): the live data   *)
(*     buffer and the timer-driven safety check;                           *)
(*   - ELM327Interface (elm327_gui.py): the serial command channel, its    *)
(*     polling thread, the response and trouble-code decoders;             *)
(*   - AdvancedOBD2Bluetooth (mazda_tool/core/obd_connection.py): its      *)
(*     decoders, the clearing of trouble codes and the live-data cycle;    *)
(*   - MazdaAITuner (mazda_tool/core/ai_tuner.py): the stored driving      *)
(*     data.                                                               *)
(* Each part has its own specification (SpecSafety, SpecElm, SpecDtc,      *)
(* SpecObd, SpecCollect, SpecTuner); the variables of the other parts      *)
(* stay unchanged under it.                                                *)
(***************************************************************************)
EXTENDS Integers, Sequences, FiniteSets, TLC

(***************************************************************************)
(* Bounds of the model.                                                    *)
(***************************************************************************)
\* update_live_data calls explored in one behaviour
MaxSamples == 2
\* firings of the safety_monitor timer explored in one behaviour
MaxTicks == 2
\* 4-character groups in an explored trouble-code response
MaxGroups == 2
\* commands written to the serial port in one behaviour
MaxWrites == 7
\* operations the GUI thread begins in one behaviour
MaxGuiOps == 3
\* faults of the adapter and the link in one behaviour
MaxFaults == 1
\* live-data cycles of the Bluetooth connection in one behaviour
MaxCycles == 2
\* calls of the tuner explored in one behaviour
MaxTunerOps == 4
\* length of the windows the analysis is explored on
MaxWindow == 3
\* the scores the selection is explored on are k / ScoreDen
ScoreDen == 20
\* data points of the sessions the recommendation is explored on
ScenarioLength == 60

(***************************************************************************)
(* MazdaDataManager                                                        *)
(***************************************************************************)
VARIABLES
    live_data_buffer,     \* deque(maxlen=500) of accepted samples, oldest first
    live_data_updated,    \* payloads emitted on live_data_updated, in order
    ai_training_dataset,  \* list of samples kept for training
    safety_events,        \* payloads emitted on safety_event_detected, in order
    protective_actions,   \* protective calls of _execute_safety_protocols, in order
    arrivals,             \* history: number of samples appended to the buffer
    eval_log              \* history: per _safety_check run that read a sample,
                          \*   the arrival number of the sample it read and
                          \*   the number of samples accepted by then

safetyVars == <<live_data_buffer, live_data_updated, ai_training_dataset, safety_events,
                protective_actions, arrivals, eval_log>>

\* MAZDASPEED_SAFETY_LIMITS, the 'critical' entries the check reads
BoostCritical == 25
HpfpCritical == 1400
KnockCritical == 5
BoostWarning == 22
BoostShutdown == 28
KnockWarning == 3
KnockShutdown == 8
\* maxlen of live_data_buffer
BufferMaxLen == 500
\* boost level requested after excessive knock
SafeBoostLevel == 15

\* a key that is not in the dict (no value is negative)
Absent == 0 - 1

\* the values a caller may report for each monitored key: no such key, or a
\* value beyond the critical limit; for boost also the limit itself
BoostValues == {Absent, BoostCritical, BoostCritical + 1}
HpfpValues == {Absent, HpfpCritical - 1}
KnockValues == {Absent, KnockCritical + 1}

\* the dicts handed to update_live_data
Samples ==
    [boost_pressure : BoostValues, fuel_pressure_high : HpfpValues,
     knock_retard : KnockValues]

EmptyDict ==
    [boost_pressure |-> Absent, fuel_pressure_high |-> Absent,
     knock_retard |-> Absent]

Keys(d) ==
    {k \in {"boost_pressure", "fuel_pressure_high", "knock_retard"} :
        d[k] # Absent}

\* _validate_data is not defined in MazdaDataManager; following the pipeline's
\* validation rule a dict without any decoded parameter is rejected (falsy) and
\* any other dict is passed on
_validate_data(new_data) == new_data

IsFalsy(d) == Keys(d) = {}

\* _apply_smoothing is not defined in MazdaDataManager; a per-parameter filter
\* keeps the keys and may change every value
_apply_smoothing(validated_data) ==
    {s \in Samples : Keys(s) = Keys(validated_data)}

\* deque.append with maxlen: the oldest element is dropped when full
DequeAppend(buf, x) ==
    IF Len(buf) >= BufferMaxLen THEN Append(Tail(buf), x) ELSE Append(buf, x)

\* update_live_data(new_data); _should_sample_for_ai is not defined in
\* MazdaDataManager, so both of its answers are explored
update_live_data(new_data) ==
    /\ arrivals < MaxSamples
    /\ LET validated_data == _validate_data(new_data) IN
       IF IsFalsy(validated_data)
       THEN UNCHANGED safetyVars
       ELSE \E smoothed_data \in _apply_smoothing(validated_data) :
              /\ live_data_buffer' = DequeAppend(live_data_buffer, smoothed_data)
              /\ live_data_updated' = Append(live_data_updated, smoothed_data)
              /\ arrivals' = arrivals + 1
              /\ \E should_sample \in BOOLEAN :
                    ai_training_dataset' =
                        IF should_sample
                        THEN Append(ai_training_dataset, smoothed_data)
                        ELSE ai_training_dataset
              /\ UNCHANGED <<safety_events, protective_actions, eval_log>>

\* the calls _execute_safety_protocols makes for an event
_execute_safety_protocols_single(event_type, event_data) ==
    IF event_type = "overboost"
    THEN <<[call |-> "_reduce_boost_pressure", arg |-> event_data.value]>>
    ELSE IF event_type = "hpfp_failure"
    THEN <<[call |-> "_enrich_air_fuel_ratio", arg |-> Absent]>>
    ELSE IF event_type = "excessive_knock"
    THEN <<[call |-> "_reduce_ignition_timing", arg |-> Absent]>>
    ELSE <<>>

_execute_safety_protocols(event_type, event_data) ==
    IF event_type = "overboost"
    THEN <<[call |-> "_reduce_boost_pressure", arg |-> event_data.value]>>
    ELSE IF event_type = "hpfp_failure"
    THEN <<[call |-> "_enrich_air_fuel_ratio", arg |-> Absent]>>
    ELSE IF event_type = "excessive_knock"
    THEN <<[call |-> "_reduce_ignition_timing", arg |-> Absent],
           [call |-> "_reduce_boost_pressure", arg |-> SafeBoostLevel]>>
    ELSE <<>>

\* _trigger_safety_event: the payload that is emitted; the timestamp is the
\* number of the evaluation that raised it
_trigger_safety_event(event_type, event_data, now) ==
    [event_type |-> event_type, parameter |-> event_data.parameter,
     value |-> event_data.value, limit |-> event_data.limit,
     action |-> event_data.action, severity |-> "critical", timestamp |-> now]

\* the three checks of _safety_check on current_data, in source order: the
\* events it triggers
BoostCheck_once(current_data) ==
    IF current_data.boost_pressure # Absent
       /\ current_data.boost_pressure > BoostCritical
       /\ safety_events = <<>>
    THEN <<[type |-> "overboost",
            data |-> [parameter |-> "boost_pressure",
                      value |-> current_data.boost_pressure,
                      limit |-> BoostCritical, action |-> "reduce_boost"]]>>
    ELSE <<>>

BoostCheck_ge(current_data) ==
    IF current_data.boost_pressure # Absent
       /\ current_data.boost_pressure >= BoostCritical
    THEN <<[type |-> "overboost",
            data |-> [parameter |-> "boost_pressure",
                      value |-> current_data.boost_pressure,
                      limit |-> BoostCritical, action |-> "reduce_boost"]]>>
    ELSE <<>>

BoostCheck(current_data) ==
    IF current_data.boost_pressure # Absent
       /\ current_data.boost_pressure > BoostCritical
    THEN <<[type |-> "overboost",
            data |-> [parameter |-> "boost_pressure",
                      value |-> current_data.boost_pressure,
                      limit |-> BoostCritical, action |-> "reduce_boost"]]>>
    ELSE <<>>

HpfpCheck(current_data) ==
    IF current_data.fuel_pressure_high # Absent
       /\ current_data.fuel_pressure_high < HpfpCritical
    THEN <<[type |-> "hpfp_failure",
            data |-> [parameter |-> "fuel_pressure_high",
                      value |-> current_data.fuel_pressure_high,
                      limit |-> HpfpCritical, action |-> "emergency_rich_afr"]]>>
    ELSE <<>>

KnockCheck(current_data) ==
    IF current_data.knock_retard # Absent
       /\ current_data.knock_retard > KnockCritical
    THEN <<[type |-> "excessive_knock",
            data |-> [parameter |-> "knock_retard",
                      value |-> current_data.knock_retard,
                      limit |-> KnockCritical, action |-> "reduce_timing_boost"]]>>
    ELSE <<>>

Triggered(current_data) ==
    BoostCheck(current_data) \o HpfpCheck(current_data) \o KnockCheck(current_data)

RECURSIVE EmitAll(_, _)
EmitAll(trig, now) ==
    IF trig = <<>> THEN <<>>
    ELSE <<_trigger_safety_event(Head(trig).type, Head(trig).data, now)>>
         \o EmitAll(Tail(trig), now)

RECURSIVE ProtectAll(_)
ProtectAll(trig) ==
    IF trig = <<>> THEN <<>>
    ELSE _execute_safety_protocols(Head(trig).type, Head(trig).data)
         \o ProtectAll(Tail(trig))

\* live_data_buffer[-1]: the position _safety_check reads
CurrentIndex_first(buf) == 1

CurrentIndex(buf) == Len(buf)

\* _safety_check, the slot of the 100 ms safety_monitor timer
_safety_check ==
    /\ Len(eval_log) < MaxTicks
    /\ IF live_data_buffer = <<>>
       THEN UNCHANGED safetyVars
       ELSE LET pos == CurrentIndex(live_data_buffer)
                current_data == live_data_buffer[pos]
                now == Len(eval_log) + 1
            IN /\ safety_events' =
                      safety_events \o EmitAll(Triggered(current_data), now)
               /\ protective_actions' =
                      protective_actions \o ProtectAll(Triggered(current_data))
               /\ eval_log' =
                      Append(eval_log,
                             [read |-> arrivals - Len(live_data_buffer) + pos,
                              latest |-> arrivals])
               /\ UNCHANGED <<live_data_buffer, live_data_updated,
                              ai_training_dataset, arrivals>>

(***************************************************************************)
(* ELM327Interface: the trouble-code decoder.  A Python str is a sequence  *)
(* of one-character strings.                                               *)
(***************************************************************************)
VARIABLES
    dtc_input,    \* the call explored: [fn, text]
    dtc_output    \* its result, NotRun before the call

dtcVars == <<dtc_input, dtc_output>>

HexDigits ==
    <<"0", "1", "2", "3", "4", "5", "6", "7", "8", "9", "A", "B", "C", "D", "E", "F">>

HexChars == {HexDigits[i] : i \in DOMAIN HexDigits}

Whitespace == {" ", "\r", "\n", "\t"}

IsHexChar(c) == c \in HexChars

\* int(c, 16) of one hexadecimal character
HexVal(c) == (CHOOSE i \in DOMAIN HexDigits : HexDigits[i] = c) - 1

NotRun == <<"not run">>
None == <<"None">>
ValueError == <<"ValueError">>

\* the if/elif chain of hex_to_dtc: the prefix for the first nibble
DtcPrefix_shifted(first_char) ==
    IF first_char = 0 THEN <<"P", "0">>
    ELSE IF first_char = 1 THEN <<"P", "1">>
    ELSE IF first_char = 2 THEN <<"P", "2">>
    ELSE IF first_char = 3 THEN <<"P", "3">>
    ELSE IF first_char = 4 THEN <<"C", "0">>
    ELSE IF first_char = 5 THEN <<"C", "1">>
    ELSE IF first_char = 6 THEN <<"C", "2">>
    ELSE IF first_char = 7 THEN <<"C", "3">>
    ELSE IF first_char = 8 THEN <<"B", "0">>
    ELSE IF first_char = 9 THEN <<"B", "1">>
    ELSE IF first_char = 10 THEN <<"B", "2">>
    ELSE IF first_char = 11 THEN <<"B", "3">>
    ELSE IF first_char = 12 THEN <<"U", "0">>
    ELSE IF first_char = 13 THEN <<"U", "1">>
    ELSE IF first_char = 14 THEN <<"U", "2">>
    ELSE IF first_char = 15 THEN <<"U", "2">>
    ELSE <<>>

DtcPrefix_repeated(first_char) ==
    IF first_char = 0 THEN <<"P", "0">>
    ELSE IF first_char = 1 THEN <<"P", "1">>
    ELSE IF first_char = 2 THEN <<"P", "2">>
    ELSE IF first_char = 3 THEN <<"P", "3">>
    ELSE IF first_char = 4 THEN <<"C", "0">>
    ELSE IF first_char = 5 THEN <<"C", "1">>
    ELSE IF first_char = 6 THEN <<"C", "2">>
    ELSE IF first_char = 7 THEN <<"C", "3">>
    ELSE IF first_char = 8 THEN <<"B", "0">>
    ELSE IF first_char = 9 THEN <<"B", "0">>
    ELSE IF first_char = 10 THEN <<"B", "2">>
    ELSE IF first_char = 11 THEN <<"B", "3">>
    ELSE IF first_char = 12 THEN <<"U", "0">>
    ELSE IF first_char = 13 THEN <<"U", "1">>
    ELSE IF first_char = 14 THEN <<"U", "2">>
    ELSE IF first_char = 15 THEN <<"U", "3">>
    ELSE <<>>

DtcPrefix(first_char) ==
    IF first_char = 0 THEN <<"P", "0">>
    ELSE IF first_char = 1 THEN <<"P", "1">>
    ELSE IF first_char = 2 THEN <<"P", "2">>
    ELSE IF first_char = 3 THEN <<"P", "3">>
    ELSE IF first_char = 4 THEN <<"C", "0">>
    ELSE IF first_char = 5 THEN <<"C", "1">>
    ELSE IF first_char = 6 THEN <<"C", "2">>
    ELSE IF first_char = 7 THEN <<"C", "3">>
    ELSE IF first_char = 8 THEN <<"B", "0">>
    ELSE IF first_char = 9 THEN <<"B", "1">>
    ELSE IF first_char = 10 THEN <<"B", "2">>
    ELSE IF first_char = 11 THEN <<"B", "3">>
    ELSE IF first_char = 12 THEN <<"U", "0">>
    ELSE IF first_char = 13 THEN <<"U", "1">>
    ELSE IF first_char = 14 THEN <<"U", "2">>
    ELSE IF first_char = 15 THEN <<"U", "3">>
    ELSE <<>>

\* hex_to_dtc(hex_code): None for a wrong length, ValueError raised by
\* int(hex_code[0], 16) on a character that is no hex digit
hex_to_dtc(hex_code) ==
    IF Len(hex_code) # 4 THEN None
    ELSE IF ~IsHexChar(hex_code[1]) THEN ValueError
    ELSE DtcPrefix(HexVal(hex_code[1])) \o SubSeq(hex_code, 2, 4)

\* str.replace(c, '')
RECURSIVE Remove(_, _)
Remove(str, c) ==
    IF str = <<>> THEN <<>>
    ELSE IF Head(str) = c THEN Remove(Tail(str), c)
    ELSE <<Head(str)>> \o Remove(Tail(str), c)

\* str.strip()
RECURSIVE LStrip(_)
LStrip(str) ==
    IF str # <<>> /\ Head(str) \in Whitespace THEN LStrip(Tail(str)) ELSE str

RECURSIVE RStrip(_)
RStrip(str) ==
    IF str # <<>> /\ str[Len(str)] \in Whitespace
    THEN RStrip(SubSeq(str, 1, Len(str) - 1)) ELSE str

Strip(str) == RStrip(LStrip(str))

StartsWith(str, prefix) ==
    Len(str) >= Len(prefix) /\ SubSeq(str, 1, Len(prefix)) = prefix

\* the for loop of parse_dtc_codes from offset i (0-based) on, with the codes
\* collected so far; an exception leaves the loop and keeps what was collected
RECURSIVE DtcLoop(_, _, _)
DtcLoop(dtc_data, i, dtcs) ==
    IF i >= Len(dtc_data) THEN dtcs
    ELSE IF i + 4 <= Len(dtc_data)
    THEN LET dtc_hex == SubSeq(dtc_data, i + 1, i + 4)
             dtc == hex_to_dtc(dtc_hex)
         IN IF dtc = ValueError THEN dtcs
            ELSE IF dtc # None /\ dtc # <<>>
            THEN DtcLoop(dtc_data, i + 4, Append(dtcs, dtc))
            ELSE DtcLoop(dtc_data, i + 4, dtcs)
    ELSE DtcLoop(dtc_data, i + 4, dtcs)

\* parse_dtc_codes(response)
parse_dtc_codes(response) ==
    LET clean_response == Strip(Remove(Remove(response, " "), ">")) IN
    IF StartsWith(clean_response, <<"4", "3">>)
    THEN DtcLoop(SubSeq(clean_response, 3, Len(clean_response)), 0, <<>>)
    ELSE <<>>

\* the 4-character groups the explored responses are built from, as two
\* printed bytes each; one holds characters that are no hex digits and the
\* last one is cut short
ResponseGroups ==
    {<<"0", "1", " ", "2", "3">>, <<"4", "5", " ", "6", "7">>,
     <<"8", "A", " ", "B", "C">>, <<"F", "F", " ", "0", "0">>,
     <<"X", "X", " ", "0", "0">>, <<"1", "2">>}

\* responses explored: a first byte (the Mode-03 marker 43, or 41), then up to
\* MaxGroups groups separated by blanks, then the prompt or nothing
RECURSIVE GroupSeqs(_)
GroupSeqs(n) ==
    IF n = 0 THEN {<<>>}
    ELSE GroupSeqs(n - 1)
         \cup {gs \o <<" ">> \o g : gs \in GroupSeqs(n - 1), g \in ResponseGroups}

DtcResponses ==
    {first \o body \o tail :
        first \in {<<"4", "3">>, <<"4", "1">>},
        body \in GroupSeqs(MaxGroups),
        tail \in {<<>>, <<"\r", ">">>}}

\* every string of four hex digits, and some of other lengths
HexCodes ==
    {<<a, b, c, d>> : a \in HexChars, b \in HexChars, c \in HexChars, d \in HexChars}
    \cup {<<>>, <<"0", "1", "2">>, <<"0", "1", "2", "3", "4">>}

CallHexToDtc ==
    /\ dtc_output = NotRun
    /\ dtc_input.fn = "hex_to_dtc"
    /\ dtc_output' = hex_to_dtc(dtc_input.text)
    /\ UNCHANGED dtc_input

CallParseDtcCodes ==
    /\ dtc_output = NotRun
    /\ dtc_input.fn = "parse_dtc_codes"
    /\ dtc_output' = parse_dtc_codes(dtc_input.text)
    /\ UNCHANGED dtc_input

(***************************************************************************)
(* ELM327Interface: the serial command channel.  Two threads use it: the   *)
(* GUI thread (connect_to_device, start_monitoring, disconnect, read_dtcs, *)
(* read_knock_data and the calls alike) and the QThread that               *)
(* executes run().  A step of the model is one statement that reads or     *)
(* writes what the other thread can see.                                   *)
(***************************************************************************)
VARIABLES
    serial_connection,  \* "None", or the state of the Serial object: "open", "closed"
    conn,               \* number of Serial objects created; names the Transport
    is_connected,
    running,
    monitoring_pids,
    link,               \* environment: the device behind the port, "ok" or "broken"
    wire,               \* commands written to a Transport: [who, cmd, conn], in order
    rx,                 \* input buffer of the current Serial object: chunks received
    adapter_next,       \* position in wire of the next command the adapter answers
    pc,                 \* per thread: the statement it is at
    call,               \* per thread: [op, cmd] of the operation in progress
    init_k,             \* connect_to_device: number of the startup command in progress
    pid_idx,            \* run: position of the for loop in monitoring_pids
    resp,               \* per thread: response accumulated by read_response
    sent,               \* per thread: position in wire of the write of its call
    ret,                \* what send_command returned last, to whom and for which
                        \*   write; a text it returns was emitted on raw_data
    connection_status,  \* last payload emitted on connection_status
    data_received,      \* last payload emitted on data_received
    gui_error,          \* disconnect raised instead of returning
    connect_opened,     \* history: the last connect_to_device call opened a Serial
    connect_result,     \* history: what the last connect_to_device call returned
    init_failed,        \* history: a startup command of the last connect failed
    stop_returned,      \* history: disconnect returned and no connect began since
    gui_ops,            \* history: operations the GUI thread has begun
    faults              \* history: commands left without a complete reply, link losses

elmVars == <<serial_connection, conn, is_connected, running, monitoring_pids,
             link, wire, rx, adapter_next, pc, call, init_k, pid_idx, resp, sent,
             ret, connection_status, data_received, gui_error,
             connect_opened, connect_result, init_failed, stop_returned, gui_ops,
             faults>>

Threads == {"gui", "poll"}

\* what a returning or raising call may change besides the Transport
ctrlVars == <<pc, call, init_k, pid_idx, sent, ret, connection_status,
              data_received, gui_error, connect_result, init_failed>>

\* ELM327Commands: the startup sequence of connect_to_device, in source order
InitCommands == <<"ATZ", "ATE0", "ATL0", "ATH1", "ATSP0">>

\* the PIDs MazdaspeedTunerGUI.connect_to_device hands to start_monitoring
GuiMonitoringPids == <<"010C", "010D", "0104", "0105", "010B", "0111">>

\* the one-command operations of the GUI thread and the command each sends;
\* clear_dtcs ("04") and read_wastegate_duty ("2140") make the same single
\* send_command call and are represented by these two
QueryCommand(op) == IF op = "read_dtcs" THEN "03" ELSE "2110"

QueryOps == {"read_dtcs", "read_knock_data"}

\* what the adapter may put into the input buffer for a command: a complete
\* reply ending in the prompt '>', a rejection '?' ending in the prompt, or
\* the beginning of a reply (too short to decode, no prompt)
ChunkKinds == {"reply", "error", "partial"}

HasPrompt(text) == \E i \in DOMAIN text : text[i].kind \in {"reply", "error"}

NoneValue == [kind |-> "None", text |-> <<>>, timed_out |-> FALSE]

NoReturnYet ==
    [who |-> "none", asked |-> 0, kind |-> "None", text |-> <<>>, timed_out |-> FALSE]

NoData == [pid |-> "none", reply_to |-> 0]

NoCallYet == [op |-> "none", cmd |-> "none"]

\* 'if response:' on what send_command returned
Truthy(v) == v.kind = "text" /\ v.text # <<>>

\* parse_obd_response gives a value: the text starts with a complete reply
\* (the reply is not matched against the PID that was asked)
Decodes(v) == Truthy(v) /\ v.text[1].kind = "reply"

\* read_response when the loop ends without the prompt (lines 157-159): the
\* text accumulated so far is decoded, emitted and returned
TimeoutResult_raise(text) == [kind |-> "Timeout", text |-> <<>>, timed_out |-> TRUE]

TimeoutResult(text) == [kind |-> "text", text |-> text, timed_out |-> TRUE]

\* a startup command counts as failed when its send gave no complete answer
\* or the adapter rejected it
StartupFailed(v) ==
    \/ v.kind # "text"
    \/ v.timed_out
    \/ \E i \in DOMAIN v.text : v.text[i].kind = "error"

\* run(), lines 195-205, after send_command returned v for the current PID
PollAfterSend(v) ==
    /\ data_received' =
          IF Decodes(v)
          THEN [pid |-> call["poll"].cmd, reply_to |-> v.text[1].cmd]
          ELSE data_received
    /\ IF pid_idx < Len(monitoring_pids)
       THEN pid_idx' = pid_idx + 1 /\ pc' = [pc EXCEPT !["poll"] = "for"]
       ELSE pid_idx' = 0 /\ pc' = [pc EXCEPT !["poll"] = "while"]
    /\ call' = [call EXCEPT !["poll"] = NoCallYet]
    /\ UNCHANGED <<init_k, connection_status, gui_error, connect_result,
                   init_failed>>

\* the GUI thread after send_command returned v: the next startup command of
\* connect_to_device (its result is not looked at), or the end of a query
GuiAfterSend(v) ==
    IF call["gui"].op = "connect_to_device"
    THEN /\ init_failed' = (init_failed \/ StartupFailed(v))
         /\ IF init_k < Len(InitCommands)
            THEN /\ init_k' = init_k + 1
                 /\ call' = [call EXCEPT !["gui"].cmd = InitCommands[init_k + 1]]
                 /\ pc' = [pc EXCEPT !["gui"] = "sc_check"]
            ELSE /\ pc' = [pc EXCEPT !["gui"] = "cn_done"]
                 /\ UNCHANGED <<init_k, call>>
         /\ UNCHANGED <<pid_idx, connection_status, data_received, gui_error,
                        connect_result>>
    ELSE /\ pc' = [pc EXCEPT !["gui"] = "idle"]
         /\ call' = [call EXCEPT !["gui"] = NoCallYet]
         /\ UNCHANGED <<init_k, pid_idx, connection_status, data_received,
                        gui_error, connect_result, init_failed>>

\* send_command returns v to thread t
Return(t, v) ==
    /\ ret' = [who |-> t, asked |-> sent[t], kind |-> v.kind, text |-> v.text,
               timed_out |-> v.timed_out]
    /\ sent' = [sent EXCEPT ![t] = 0]
    /\ IF t = "poll" THEN PollAfterSend(v) ELSE GuiAfterSend(v)

\* an exception leaves send_command in thread t: run() has no handler,
\* connect_to_device reports the failure and returns False,
\* read_enhanced_parameters prints it, read_dtcs lets it go to the event loop
Raise(t) ==
    /\ pc' = [pc EXCEPT ![t] = IF t = "poll" THEN "crashed" ELSE "idle"]
    /\ connection_status' =
          IF t = "gui" /\ call["gui"].op = "connect_to_device"
          THEN "Connection failed" ELSE connection_status
    /\ connect_result' =
          IF t = "gui" /\ call["gui"].op = "connect_to_device"
          THEN "False" ELSE connect_result
    /\ init_failed' =
          IF t = "gui" /\ call["gui"].op = "connect_to_device"
          THEN TRUE ELSE init_failed
    /\ call' = [call EXCEPT ![t] = NoCallYet]
    /\ init_k' = IF t = "gui" THEN 0 ELSE init_k
    /\ pid_idx' = IF t = "poll" THEN 0 ELSE pid_idx
    /\ sent' = [sent EXCEPT ![t] = 0]
    /\ UNCHANGED <<ret, data_received, gui_error>>

\* send_command, line 138: the check before the write
ScCheck(t) ==
    /\ pc[t] = "sc_check"
    /\ IF serial_connection = "open"
       THEN pc' = [pc EXCEPT ![t] = "sc_write"]
            /\ UNCHANGED <<call, init_k, pid_idx, sent, ret, connection_status,
                           data_received, gui_error, connect_result, init_failed>>
       ELSE Return(t, NoneValue)
    /\ UNCHANGED <<serial_connection, conn, is_connected, running,
                   monitoring_pids, link, wire, rx, adapter_next, resp,
                   connect_opened, stop_returned, gui_ops, faults>>

\* a write reaches the Transport when the port is open and the device is there
WriteGoesOut == serial_connection = "open" /\ link = "ok"

\* send_command, line 140: the write; pyserial raises on a closed port and on
\* a device that is gone, and then nothing is written
ScWrite(t) ==
    /\ pc[t] = "sc_write"
    /\ IF WriteGoesOut
       THEN /\ Len(wire) < MaxWrites
            /\ wire' = Append(wire, [who |-> t, cmd |-> call[t].cmd, conn |-> conn])
            /\ sent' = [sent EXCEPT ![t] = Len(wire) + 1]
            /\ pc' = [pc EXCEPT ![t] = "rr_check"]
            /\ UNCHANGED <<call, init_k, pid_idx, ret, connection_status,
                           data_received, gui_error, connect_result, init_failed>>
       ELSE Raise(t) /\ UNCHANGED wire
    /\ UNCHANGED <<serial_connection, conn, is_connected, running,
                   monitoring_pids, link, rx, adapter_next, resp,
                   connect_opened, stop_returned, gui_ops, faults>>

\* read_response, lines 147-149: the check before the loop
RrCheck(t) ==
    /\ pc[t] = "rr_check"
    /\ IF serial_connection = "open"
       THEN /\ pc' = [pc EXCEPT ![t] = "rr_loop"]
            /\ resp' = [resp EXCEPT ![t] = <<>>]
            /\ UNCHANGED <<call, init_k, pid_idx, sent, ret, connection_status,
                           data_received, gui_error, connect_result, init_failed>>
       ELSE Return(t, NoneValue) /\ UNCHANGED resp
    /\ UNCHANGED <<serial_connection, conn, is_connected, running,
                   monitoring_pids, link, wire, rx, adapter_next,
                   connect_opened, stop_returned, gui_ops, faults>>

\* read_response, lines 151-154: bytes are waiting; they are taken and the
\* loop ends when the prompt is among what was accumulated
RrRead(t) ==
    /\ pc[t] = "rr_loop"
    /\ serial_connection = "open" /\ link = "ok"
    /\ rx # <<>>
    /\ rx' = <<>>
    /\ LET response == resp[t] \o rx IN
       IF HasPrompt(response)
       THEN /\ resp' = [resp EXCEPT ![t] = <<>>]
            /\ Return(t, [kind |-> "text", text |-> response, timed_out |-> FALSE])
       ELSE /\ resp' = [resp EXCEPT ![t] = response]
            /\ UNCHANGED ctrlVars
    /\ UNCHANGED <<serial_connection, conn, is_connected, running,
                   monitoring_pids, link, wire, adapter_next,
                   connect_opened, stop_returned, gui_ops, faults>>

\* read_response, line 151: in_waiting raises on a closed port and on a
\* device that is gone
RrRaise(t) ==
    /\ pc[t] = "rr_loop"
    /\ ~(serial_connection = "open" /\ link = "ok")
    /\ resp' = [resp EXCEPT ![t] = <<>>]
    /\ Raise(t)
    /\ UNCHANGED <<serial_connection, conn, is_connected, running,
                   monitoring_pids, link, wire, rx, adapter_next,
                   connect_opened, stop_returned, gui_ops, faults>>

\* read_response, lines 150 and 157-159: the 2 s are over before the prompt
\* was seen; the adapter has nothing more to send by then
RrTimeout(t) ==
    /\ pc[t] = "rr_loop"
    /\ ~HasPrompt(resp[t])
    /\ rx = <<>> /\ adapter_next > Len(wire)
    /\ resp' = [resp EXCEPT ![t] = <<>>]
    /\ Return(t, TimeoutResult(resp[t]))
    /\ UNCHANGED <<serial_connection, conn, is_connected, running,
                   monitoring_pids, link, wire, rx, adapter_next,
                   connect_opened, stop_returned, gui_ops, faults>>

\* QThread.start(): run() begins unless the thread is executing it already
ThreadStart(p) == IF p \in {"idle", "finished", "crashed"} THEN "while" ELSE p

\* connect_to_device, lines 102-113: the Serial object is created (the port
\* is opened) and the first startup command is about to be sent; when the
\* port cannot be opened the constructor raises and the handler reports it
ConnectToDevice ==
    /\ pc["gui"] = "idle"
    /\ gui_ops < MaxGuiOps
    /\ gui_ops' = gui_ops + 1
    /\ init_failed' = FALSE
    /\ IF link = "ok"
       THEN /\ call' = [call EXCEPT !["gui"] =
                           [op |-> "connect_to_device", cmd |-> InitCommands[1]]]
            /\ serial_connection' = "open"
            /\ conn' = conn + 1
            /\ rx' = <<>>
            /\ adapter_next' = Len(wire) + 1
            /\ init_k' = 1
            /\ pc' = [pc EXCEPT !["gui"] = "sc_check"]
            /\ connect_opened' = TRUE
            /\ connect_result' = "pending"
            /\ stop_returned' = FALSE
            /\ UNCHANGED connection_status
       ELSE /\ connection_status' = "Connection failed"
            /\ connect_opened' = FALSE
            /\ connect_result' = "False"
            /\ UNCHANGED <<serial_connection, conn, rx, adapter_next, init_k, pc,
                           call, stop_returned>>
    /\ UNCHANGED <<is_connected, running, monitoring_pids, link, wire, pid_idx,
                   resp, ret, sent, data_received, gui_error, faults>>

\* connect_to_device, lines 120-122
ConnectDone ==
    /\ pc["gui"] = "cn_done"
    /\ is_connected' = TRUE
    /\ connection_status' = "Connected"
    /\ connect_result' = "True"
    /\ pc' = [pc EXCEPT !["gui"] = "start_monitoring"]
    /\ UNCHANGED <<serial_connection, conn, running, monitoring_pids, link, wire,
                   rx, adapter_next, call, init_k, pid_idx, resp, ret, sent,
                   data_received, gui_error, connect_opened, init_failed,
                   stop_returned, gui_ops, faults>>

\* start_monitoring(pids), called by the GUI when connect_to_device returned True
StartMonitoring ==
    /\ pc["gui"] = "start_monitoring"
    /\ monitoring_pids' = GuiMonitoringPids
    /\ running' = TRUE
    /\ pc' = [pc EXCEPT !["gui"] = "idle", !["poll"] = ThreadStart(pc["poll"])]
    /\ call' = [call EXCEPT !["gui"] = NoCallYet]
    /\ init_k' = 0
    /\ UNCHANGED <<serial_connection, conn, is_connected, link, wire, rx,
                   adapter_next, pid_idx, resp, ret, sent,
                   connection_status, data_received, gui_error, connect_opened,
                   connect_result, init_failed, stop_returned, gui_ops, faults>>

\* disconnect, line 130
Disconnect ==
    /\ pc["gui"] = "idle"
    /\ gui_ops < MaxGuiOps
    /\ gui_ops' = gui_ops + 1
    /\ call' = [call EXCEPT !["gui"] = [op |-> "disconnect", cmd |-> "none"]]
    /\ running' = FALSE
    /\ pc' = [pc EXCEPT !["gui"] = "dc_close"]
    /\ UNCHANGED <<serial_connection, conn, is_connected, monitoring_pids, link,
                   wire, rx, adapter_next, init_k, pid_idx, resp, ret, sent,
                   connection_status, data_received, gui_error,
                   connect_opened, connect_result, init_failed, stop_returned,
                   faults>>

\* disconnect, line 131: the guard of close()
ClosesPort_unguarded(s) == TRUE

ClosesPort_never(s) == FALSE

ClosesPort(s) == s = "open"

\* disconnect, lines 131-132; close() on None raises AttributeError
DisconnectClose ==
    /\ pc["gui"] = "dc_close"
    /\ IF ClosesPort(serial_connection)
       THEN IF serial_connection = "None"
            THEN /\ gui_error' = TRUE
                 /\ pc' = [pc EXCEPT !["gui"] = "idle"]
                 /\ call' = [call EXCEPT !["gui"] = NoCallYet]
                 /\ UNCHANGED serial_connection
            ELSE /\ serial_connection' = "closed"
                 /\ pc' = [pc EXCEPT !["gui"] = "dc_flag"]
                 /\ UNCHANGED <<gui_error, call>>
       ELSE /\ pc' = [pc EXCEPT !["gui"] = "dc_flag"]
            /\ UNCHANGED <<serial_connection, gui_error, call>>
    /\ UNCHANGED <<conn, is_connected, running, monitoring_pids, link, wire, rx,
                   adapter_next, init_k, pid_idx, resp, ret, sent,
                   connection_status, data_received, connect_opened,
                   connect_result, init_failed, stop_returned, gui_ops, faults>>

\* disconnect, lines 133-134, and its return
DisconnectFlag ==
    /\ pc["gui"] = "dc_flag"
    /\ is_connected' = FALSE
    /\ connection_status' = "Disconnected"
    /\ stop_returned' = TRUE
    /\ pc' = [pc EXCEPT !["gui"] = "idle"]
    /\ call' = [call EXCEPT !["gui"] = NoCallYet]
    /\ UNCHANGED <<serial_connection, conn, running, monitoring_pids, link, wire,
                   rx, adapter_next, init_k, pid_idx, resp, ret, sent,
                   data_received, gui_error, connect_opened, connect_result,
                   init_failed, gui_ops, faults>>

\* read_dtcs, clear_dtcs, read_knock_data, read_wastegate_duty: the call of
\* send_command
Query(op) ==
    /\ pc["gui"] = "idle"
    /\ gui_ops < MaxGuiOps
    /\ gui_ops' = gui_ops + 1
    /\ call' = [call EXCEPT !["gui"] = [op |-> op, cmd |-> QueryCommand(op)]]
    /\ pc' = [pc EXCEPT !["gui"] = "sc_check"]
    /\ UNCHANGED <<serial_connection, conn, is_connected, running,
                   monitoring_pids, link, wire, rx, adapter_next, init_k, pid_idx,
                   resp, ret, sent, connection_status, data_received,
                   gui_error, connect_opened, connect_result, init_failed,
                   stop_returned, faults>>

\* run, line 189: the condition of the while loop
RunWhile ==
    /\ pc["poll"] = "while"
    /\ IF running /\ is_connected
       THEN IF monitoring_pids = <<>>
            THEN UNCHANGED <<pc, pid_idx>>
            ELSE pc' = [pc EXCEPT !["poll"] = "for"] /\ pid_idx' = 1
       ELSE pc' = [pc EXCEPT !["poll"] = "finished"] /\ UNCHANGED pid_idx
    /\ UNCHANGED <<serial_connection, conn, is_connected, running,
                   monitoring_pids, link, wire, rx, adapter_next, call, init_k,
                   resp, ret, sent, connection_status, data_received,
                   gui_error, connect_opened, connect_result, init_failed,
                   stop_returned, gui_ops, faults>>

\* run, lines 190-194: the stop check of the for loop, then the call of
\* send_command(pid)
RunFor ==
    /\ pc["poll"] = "for"
    /\ IF ~running
       THEN pc' = [pc EXCEPT !["poll"] = "while"] /\ pid_idx' = 0
            /\ UNCHANGED call
       ELSE /\ UNCHANGED pid_idx
            /\ call' = [call EXCEPT !["poll"] =
                           [op |-> "run", cmd |-> monitoring_pids[pid_idx]]]
            /\ pc' = [pc EXCEPT !["poll"] = "sc_check"]
    /\ UNCHANGED <<serial_connection, conn, is_connected, running,
                   monitoring_pids, link, wire, rx, adapter_next, init_k,
                   resp, ret, sent, connection_status, data_received,
                   gui_error, connect_opened, connect_result, init_failed,
                   stop_returned, gui_ops, faults>>

\* the adapter answers the commands of the current Transport in the order
\* they were written, each at once or never: with a complete reply, or (a
\* fault) with a rejection, with a reply that breaks off, or not at all
AdapterRespond ==
    /\ serial_connection = "open" /\ link = "ok"
    /\ adapter_next <= Len(wire)
    /\ adapter_next' = adapter_next + 1
    /\ \/ /\ rx' = Append(rx, [cmd |-> adapter_next, kind |-> "reply"])
          /\ UNCHANGED faults
       \/ /\ faults < MaxFaults
          /\ faults' = faults + 1
          /\ \/ \E kind \in {"error", "partial"} :
                   rx' = Append(rx, [cmd |-> adapter_next, kind |-> kind])
             \/ UNCHANGED rx
    /\ UNCHANGED <<serial_connection, conn, is_connected, running,
                   monitoring_pids, link, wire, pc, call, init_k, pid_idx, resp,
                   ret, sent, connection_status, data_received,
                   gui_error, connect_opened, connect_result, init_failed,
                   stop_returned, gui_ops>>

\* the device is unplugged or the radio link is lost
LinkBreaks ==
    /\ link = "ok"
    /\ faults < MaxFaults
    /\ faults' = faults + 1
    /\ link' = "broken"
    /\ UNCHANGED <<serial_connection, conn, is_connected, running,
                   monitoring_pids, wire, rx, adapter_next, pc, call, init_k,
                   pid_idx, resp, ret, sent, connection_status,
                   data_received, gui_error, connect_opened, connect_result,
                   init_failed, stop_returned, gui_ops>>

(***************************************************************************)
(* Response decoders and trouble-code clearing: parse_obd_response and     *)
(* clear_dtcs of ELM327Interface, _get_rpm, _get_coolant_temp and          *)
(* clear_diagnostic_codes of AdvancedOBD2Bluetooth.  A decoded value is a  *)
(* fraction [num, den]: the formulas divide.                               *)
(***************************************************************************)
VARIABLES
    obd_call,     \* the call explored: [fn, response, ...]
    obd_result    \* its result, NotRun before the call

obdVars == <<obd_call, obd_result>>

\* obd_result before the call, and the result None
ObdNotRun == [kind |-> "not run"]

NoValue == [kind |-> "None"]

\* 'sub in str'
Contains(str, sub) ==
    \E i \in 1..(Len(str) - Len(sub) + 1) : SubSeq(str, i, i + Len(sub) - 1) = sub

\* int(text, 16) of text made of hex digits
RECURSIVE HexInt(_)
HexInt(text) ==
    IF text = <<>> THEN 0
    ELSE 16 * HexInt(SubSeq(text, 1, Len(text) - 1)) + HexVal(text[Len(text)])

IsHexText(text) == text # <<>> /\ \A i \in DOMAIN text : IsHexChar(text[i])

\* Mazdaspeed3PIDs.PID_DEFINITIONS: the formula of a PID applied to x
PidDefined(pid) ==
    pid \in {"0104", "0105", "010C", "010D", "010B", "010F", "0111", "0110", "010E"}

Formula(pid, x) ==
    IF pid = "0104" THEN [kind |-> "value", num |-> x * 100, den |-> 255]
    ELSE IF pid = "0105" THEN [kind |-> "value", num |-> x - 40, den |-> 1]
    ELSE IF pid = "010C" THEN [kind |-> "value", num |-> x, den |-> 4]
    ELSE IF pid = "010D" THEN [kind |-> "value", num |-> x, den |-> 1]
    ELSE IF pid = "010B" THEN [kind |-> "value", num |-> x, den |-> 1]
    ELSE IF pid = "010F" THEN [kind |-> "value", num |-> x - 40, den |-> 1]
    ELSE IF pid = "0111" THEN [kind |-> "value", num |-> x * 100, den |-> 255]
    ELSE IF pid = "0110" THEN [kind |-> "value", num |-> x, den |-> 100]
    ELSE [kind |-> "value", num |-> x - 128, den |-> 2]

\* parse_obd_response, line 168: the least length of the cleaned response
MinResponseLen == 8

\* parse_obd_response, line 169: clean_response[6:10], as 1-based positions
DataBytes(clean_response) ==
    SubSeq(clean_response, 7, IF Len(clean_response) < 10 THEN Len(clean_response) ELSE 10)

\* parse_obd_response(response, pid); an exception gives None
parse_obd_response(response, pid) ==
    LET clean_response == Strip(Remove(Remove(response, " "), ">")) IN
    IF Len(clean_response) >= MinResponseLen
    THEN LET data_bytes == DataBytes(clean_response) IN
         IF ~IsHexText(data_bytes) THEN NoValue
         ELSE IF PidDefined(pid) THEN Formula(pid, HexInt(data_bytes))
         ELSE NoValue
    ELSE NoValue

\* str.split(sep): the pieces between the separators
RECURSIVE SplitOn(_, _, _)
SplitOn(str, sep, piece) ==
    IF str = <<>> THEN <<piece>>
    ELSE IF Head(str) = sep THEN <<piece>> \o SplitOn(Tail(str), sep, <<>>)
    ELSE SplitOn(Tail(str), sep, Append(piece, Head(str)))

\* str.split(): the words between runs of whitespace
RECURSIVE Words(_, _)
Words(str, word) ==
    IF str = <<>> THEN (IF word = <<>> THEN <<>> ELSE <<word>>)
    ELSE IF Head(str) \in Whitespace
    THEN (IF word = <<>> THEN <<>> ELSE <<word>>) \o Words(Tail(str), <<>>)
    ELSE Words(Tail(str), Append(word, Head(str)))

Falsy(response) == response = None \/ response = <<>>

\* the loop over the lines of _get_rpm: the first line holding '41 0C' that
\* has four words decides; int() of a word that is no hex number raises
RECURSIVE RpmOfLines(_)
RpmOfLines(lines) ==
    IF lines = <<>> THEN NoValue
    ELSE LET data == Words(Head(lines), <<>>) IN
         IF Contains(Head(lines), <<"4", "1", " ", "0", "C">>) /\ Len(data) >= 4
         THEN IF IsHexText(data[3]) /\ IsHexText(data[4])
              THEN [kind |-> "value",
                    num |-> 256 * HexInt(data[3]) + HexInt(data[4]), den |-> 4]
              ELSE NoValue
         ELSE RpmOfLines(Tail(lines))

\* _get_rpm, after _send_obd_command returned response
_get_rpm(response) ==
    IF ~Falsy(response) /\ Contains(response, <<"4", "1", " ", "0", "C">>)
    THEN RpmOfLines(SplitOn(response, "\n", <<>>))
    ELSE NoValue

RECURSIVE CoolantOfLines(_)
CoolantOfLines(lines) ==
    IF lines = <<>> THEN NoValue
    ELSE LET data == Words(Head(lines), <<>>) IN
         IF Contains(Head(lines), <<"4", "1", " ", "0", "5">>) /\ Len(data) >= 3
         THEN IF IsHexText(data[3])
              THEN [kind |-> "value", num |-> HexInt(data[3]) - 40, den |-> 1]
              ELSE NoValue
         ELSE CoolantOfLines(Tail(lines))

\* _get_coolant_temp, after _send_obd_command returned response
_get_coolant_temp(response) ==
    IF ~Falsy(response) /\ Contains(response, <<"4", "1", " ", "0", "5">>)
    THEN CoolantOfLines(SplitOn(response, "\n", <<>>))
    ELSE NoValue

\* ELM327Interface.clear_dtcs, after send_command("04") returned response
clear_dtcs(response) ==
    IF ~Falsy(response) THEN Contains(response, <<"O", "K">>) ELSE FALSE

\* MazdaspeedTunerGUI.clear_dtcs: the table of codes is emptied on success
GuiClearDtcs(response, codes) ==
    IF clear_dtcs(response)
    THEN [success |-> TRUE, codes |-> <<>>]
    ELSE [success |-> FALSE, codes |-> codes]

\* update_diagnostic_codes is not defined in MazdaDataManager; it stores the
\* list it is given as the diagnostic codes
update_diagnostic_codes(codes) == codes

\* AdvancedOBD2Bluetooth.clear_diagnostic_codes, with the response that
\* _send_obd_command("04") returns
clear_diagnostic_codes(connected, response, codes) ==
    IF ~connected THEN [success |-> FALSE, codes |-> codes]
    ELSE LET success ==
                 IF ~Falsy(response) THEN Contains(response, <<"4", "4">>) ELSE FALSE
         IN [success |-> success,
             codes |-> IF success THEN update_diagnostic_codes(<<>>) ELSE codes]

\* the data bytes the explored parameter responses carry
DataByteTexts == {<<"0", "0">>, <<"1", "A">>, <<"5", "A">>, <<"F", "8">>, <<"F", "F">>}

\* parameter responses explored: RPM with two data bytes, coolant
\* temperature with one, the same behind a CAN header and with the prompt,
\* and answers that carry no data
ParameterResponses ==
    {<<"4", "1", " ", "0", "C", " ">> \o a \o <<" ">> \o b :
        a \in DataByteTexts, b \in DataByteTexts}
    \cup {<<"4", "1", " ", "0", "5", " ">> \o a : a \in DataByteTexts}
    \cup {<<"4", "1", " ", "0", "C", " ", "1", "A", " ", "F", "8", " ", "\r", "\r", ">">>,
          <<"7", "E", "8", " ", "0", "4", " ", "4", "1", " ", "0", "C", " ",
            "1", "A", " ", "F", "8">>,
          <<"4", "1", " ", "0", "C", " ", "1", "A">>,
          <<"N", "O", " ", "D", "A", "T", "A">>,
          <<"?">>,
          <<>>}

\* answers to the Mode-04 request explored: the positive acknowledgement 44,
\* the adapter's OK, a negative response, no data, an empty text, nothing
ClearResponses ==
    {<<"4", "4">>, <<"4", "4", " ", "\r", "\r", ">">>,
     <<"7", "E", "8", " ", "0", "1", " ", "4", "4">>,
     <<"O", "K">>, <<"7", "F", " ", "0", "4", " ", "2", "2">>,
     <<"N", "O", " ", "D", "A", "T", "A">>, <<>>, None}

\* the code lists held before clearing
StoredCodes ==
    {<<>>, <<<<"P", "0", "1", "2", "3">>>>,
     <<<<"P", "0", "1", "2", "3">>, <<"C", "0", "5", "6", "7">>>>}

\* the calls explored
ObdCalls ==
    [fn : {"parse_obd_response"}, response : ParameterResponses,
     pid : {"010C", "0105", "0100"}]
    \cup [fn : {"_get_rpm", "_get_coolant_temp"},
          response : ParameterResponses \cup {None}]
    \cup [fn : {"clear_dtcs"}, response : ClearResponses, codes : StoredCodes]
    \cup [fn : {"clear_diagnostic_codes"}, connected : BOOLEAN,
          response : ClearResponses, codes : StoredCodes]

CallParseObdResponse ==
    /\ obd_result = ObdNotRun
    /\ obd_call.fn = "parse_obd_response"
    /\ obd_result' = parse_obd_response(obd_call.response, obd_call.pid)
    /\ UNCHANGED obd_call

CallGetRpm ==
    /\ obd_result = ObdNotRun
    /\ obd_call.fn = "_get_rpm"
    /\ obd_result' = _get_rpm(obd_call.response)
    /\ UNCHANGED obd_call

CallGetCoolantTemp ==
    /\ obd_result = ObdNotRun
    /\ obd_call.fn = "_get_coolant_temp"
    /\ obd_result' = _get_coolant_temp(obd_call.response)
    /\ UNCHANGED obd_call

CallClearDtcs ==
    /\ obd_result = ObdNotRun
    /\ obd_call.fn = "clear_dtcs"
    /\ obd_result' = GuiClearDtcs(obd_call.response, obd_call.codes)
    /\ UNCHANGED obd_call

CallClearDiagnosticCodes ==
    /\ obd_result = ObdNotRun
    /\ obd_call.fn = "clear_diagnostic_codes"
    /\ obd_result' = clear_diagnostic_codes(obd_call.connected, obd_call.response,
                                            obd_call.codes)
    /\ UNCHANGED obd_call

(***************************************************************************)
(* AdvancedOBD2Bluetooth: connection state and the live-data cycle         *)
(***************************************************************************)
VARIABLES
    bt_connected,  \* self.connected
    bt_socket,     \* self.socket is not None
    data_timer,    \* self.data_timer is active
    cycle_log      \* history: per cycle the decoders' results and the
                   \* number of accepted samples before and after it

collectVars == <<bt_connected, bt_socket, data_timer, cycle_log>>

CollectorKeys ==
    {"rpm", "speed", "engine_load", "throttle_position", "intake_temp",
     "coolant_temp"}

\* the marker '41 xx' the one-byte decoders look for
Marker(key) ==
    IF key = "speed" THEN <<"4", "1", " ", "0", "D">>
    ELSE IF key = "engine_load" THEN <<"4", "1", " ", "0", "4">>
    ELSE IF key = "throttle_position" THEN <<"4", "1", " ", "1", "1">>
    ELSE <<"4", "1", " ", "0", "F">>

\* their formulas: x, x / 2.55 (twice) and x - 40
ByteFormula(key, x) ==
    IF key = "speed" THEN [kind |-> "value", num |-> x, den |-> 1]
    ELSE IF key \in {"engine_load", "throttle_position"}
    THEN [kind |-> "value", num |-> 100 * x, den |-> 255]
    ELSE [kind |-> "value", num |-> x - 40, den |-> 1]

\* the loop over the lines that _get_speed, _get_engine_load,
\* _get_throttle_position and _get_intake_temp share: the first line holding
\* the marker that has three words decides
RECURSIVE ByteOfLines(_, _)
ByteOfLines(key, lines) ==
    IF lines = <<>> THEN NoValue
    ELSE LET data == Words(Head(lines), <<>>) IN
         IF Contains(Head(lines), Marker(key)) /\ Len(data) >= 3
         THEN IF IsHexText(data[3])
              THEN ByteFormula(key, HexInt(data[3]))
              ELSE NoValue
         ELSE ByteOfLines(key, Tail(lines))

GetByte(key, response) ==
    IF ~Falsy(response) /\ Contains(response, Marker(key))
    THEN ByteOfLines(key, SplitOn(response, "\n", <<>>))
    ELSE NoValue

_get_speed(response) == GetByte("speed", response)

_get_engine_load(response) == GetByte("engine_load", response)

_get_throttle_position(response) == GetByte("throttle_position", response)

_get_intake_temp(response) == GetByte("intake_temp", response)

\* the decoder collect_real_live_data calls for a key
GetValue(key, response) ==
    IF key = "rpm" THEN _get_rpm(response)
    ELSE IF key = "speed" THEN _get_speed(response)
    ELSE IF key = "engine_load" THEN _get_engine_load(response)
    ELSE IF key = "throttle_position" THEN _get_throttle_position(response)
    ELSE IF key = "intake_temp" THEN _get_intake_temp(response)
    ELSE _get_coolant_temp(response)

\* live_data as collect_real_live_data builds it: a key is set only when its
\* decoder returned a value
CollectedData_sentinel(results) ==
    [k \in DOMAIN results |->
        IF results[k] = NoValue
        THEN [kind |-> "value", num |-> 0, den |-> 1]
        ELSE results[k]]

CollectedData(results) ==
    [k \in {key \in DOMAIN results : results[key] # NoValue} |-> results[k]]

\* _apply_smoothing is not defined in MazdaDataManager; a per-parameter
\* filter keeps the keys, and its output for a parameter lies between the
\* value buffered last and the new one: both ends are explored
SmoothedCollected(validated_data, buf) ==
    {validated_data,
     [k \in DOMAIN validated_data |->
         IF buf # <<>> /\ k \in DOMAIN buf[Len(buf)]
         THEN buf[Len(buf)][k]
         ELSE validated_data[k]]}

\* update_live_data(live_data), called by the cycle with a non-empty dict
CollectorUpdateLiveData(new_data) ==
    LET validated_data == _validate_data(new_data) IN
    IF DOMAIN validated_data = {}
    THEN UNCHANGED safetyVars
    ELSE \E smoothed_data \in SmoothedCollected(validated_data, live_data_buffer) :
           /\ live_data_buffer' = DequeAppend(live_data_buffer, smoothed_data)
           /\ live_data_updated' = Append(live_data_updated, smoothed_data)
           /\ arrivals' = arrivals + 1
           /\ \E should_sample \in BOOLEAN :
                 ai_training_dataset' =
                     IF should_sample
                     THEN Append(ai_training_dataset, smoothed_data)
                     ELSE ai_training_dataset
           /\ UNCHANGED <<safety_events, protective_actions, eval_log>>

RpmResponse1AF8 ==
    <<"4", "1", " ", "0", "C", " ", "1", "A", " ", "F", "8">>

\* a response that decodes, per key
GoodResponse(key) ==
    IF key = "rpm" THEN RpmResponse1AF8
    ELSE IF key = "coolant_temp" THEN <<"4", "1", " ", "0", "5", " ", "5", "A">>
    ELSE Marker(key) \o <<" ", "5", "A">>

\* responses that do not: nothing received, and the adapter's NO DATA
BadResponses == {None, <<"N", "O", " ", "D", "A", "T", "A">>}

GoodSets ==
    {{}, {"rpm"}, {"coolant_temp"}, {"rpm", "speed", "engine_load"},
     CollectorKeys}

\* the responses of one cycle, per key: the keys of a good set decode and the
\* others receive a bad response; one cycle in which only the RPM response is
\* cut short, and one with another RPM value
CycleResponses ==
    {[k \in CollectorKeys |-> IF k \in good THEN GoodResponse(k) ELSE bad] :
        good \in GoodSets, bad \in BadResponses}
    \cup {[k \in CollectorKeys |->
              IF k = "rpm" THEN <<"4", "1", " ", "0", "C", " ", "1", "A">>
              ELSE GoodResponse(k)],
          [k \in CollectorKeys |->
              IF k = "rpm"
              THEN <<"4", "1", " ", "0", "C", " ", "0", "0", " ", "F", "F">>
              ELSE GoodResponse(k)]}

\* connect_vehicle: no adapter found, the socket fails to connect, the
\* vehicle does not answer the test request, or success
connect_vehicle ==
    \E outcome \in {"no adapter", "socket error", "not responding", "ok"} :
        /\ bt_socket' = (bt_socket \/ outcome # "no adapter")
        /\ bt_connected' = (bt_connected \/ outcome = "ok")
        /\ data_timer' = (data_timer \/ outcome = "ok")
        /\ UNCHANGED cycle_log

\* disconnect_vehicle
disconnect_vehicle ==
    /\ data_timer' = FALSE
    /\ bt_socket' = FALSE
    /\ bt_connected' = FALSE
    /\ UNCHANGED cycle_log

\* the PID each decoder passes to _send_obd_command
KeyPid(key) ==
    IF key = "rpm" THEN <<"0", "1", "0", "C">>
    ELSE IF key = "speed" THEN <<"0", "1", "0", "D">>
    ELSE IF key = "engine_load" THEN <<"0", "1", "0", "4">>
    ELSE IF key = "throttle_position" THEN <<"0", "1", "1", "1">>
    ELSE IF key = "intake_temp" THEN <<"0", "1", "0", "F">>
    ELSE <<"0", "1", "0", "5">>

\* _send_obd_command(pid): the text it sends on the socket, f"01{pid}" and
\* the line terminator
_send_obd_command(pid) == <<"0", "1">> \o pid \o <<"\r", "\n">>

\* f"{n:02d}" of a number below 100
TwoDigits(n) == <<HexDigits[(n \div 10) + 1], HexDigits[(n % 10) + 1]>>

\* _hex_to_dtc(first_byte, second_byte): the letter from the two high bits of
\* the first byte, its six low bits printed as a decimal number of two
\* digits, then the two nibbles of the second byte; any exception gives None
_hex_to_dtc(first_byte, second_byte) ==
    IF ~IsHexText(first_byte) \/ ~IsHexText(second_byte) THEN None
    ELSE LET first_int == HexInt(first_byte)
             second_int == HexInt(second_byte)
             byte1 == (first_int \div 64) % 4
             byte2 == first_int % 64
             byte3 == (second_int \div 16) % 16
             byte4 == second_int % 16
             dtc_letter == <<"P", "C", "B", "U">>[byte1 + 1]
         IN <<dtc_letter>> \o TwoDigits(byte2)
                \o <<HexDigits[byte3 + 1], HexDigits[byte4 + 1]>>

\* the pairs of printed bytes explored: every first byte, with second bytes
\* of low, mixed and high nibbles, and a pair that is not hexadecimal
FirstBytes == {<<a, b>> : a \in HexChars, b \in HexChars}

SecondBytes ==
    {<<c, d>> : c \in {"0", "3", "A", "F"}, d \in {"0", "4", "F"}}

BytePairs ==
    [fn : {"_hex_to_dtc"}, first_byte : FirstBytes, second_byte : SecondBytes]
    \cup {[fn |-> "_hex_to_dtc", first_byte |-> <<"X", "X">>,
           second_byte |-> <<"0", "0">>]}

CallBtHexToDtc ==
    /\ dtc_output = NotRun
    /\ dtc_input.fn = "_hex_to_dtc"
    /\ dtc_output' = _hex_to_dtc(dtc_input.first_byte, dtc_input.second_byte)
    /\ UNCHANGED dtc_input

\* collect_real_live_data, the slot of data_timer
collect_real_live_data ==
    /\ data_timer
    /\ Len(cycle_log) < MaxCycles
    /\ IF ~bt_connected \/ ~bt_socket
       THEN UNCHANGED <<safetyVars, collectVars>>
       ELSE \E responses \in CycleResponses :
              LET results == [k \in CollectorKeys |-> GetValue(k, responses[k])]
                  live_data == CollectedData(results)
              IN /\ IF DOMAIN live_data # {}
                    THEN CollectorUpdateLiveData(live_data)
                    ELSE UNCHANGED safetyVars
                 /\ cycle_log' =
                        Append(cycle_log,
                               [results |-> results, before |-> arrivals,
                                after |-> arrivals',
                                written |->
                                    [k \in CollectorKeys |->
                                        _send_obd_command(KeyPid(k))]])
                 /\ UNCHANGED <<bt_connected, bt_socket, data_timer>>

(***************************************************************************)
(* MazdaAITuner: the stored driving data                                   *)
(***************************************************************************)
VARIABLES
    learning_active,  \* self.learning_active
    driving_data,     \* self.driving_data
    ingested,         \* history: data points appended so far
    last_analysis,    \* history: the data point at which a recommendation
                      \* was generated last in this session, 0 for none
    tuner_ops,        \* calls made in this behaviour
    driving_profile,  \* self.driving_profile
    tuner_return      \* history: what the last call returned

tunerVars ==
    <<learning_active, driving_data, ingested, last_analysis, tuner_ops,
      driving_profile, tuner_return>>

MaxDrivingData == 3600
RecentWindow == 200
AnalysisInterval == 100
SampleSizeMin == 50

\* data.get(key, 0)
Get(data, key) == IF key \in DOMAIN data THEN data[key] ELSE 0

\* _get_driving_context(data): the first test of the chain that holds
_get_driving_context_performanceFirst(data) ==
    LET rpm == Get(data, "rpm")
        throttle == Get(data, "throttle_position")
        speed == Get(data, "speed")
        boost == Get(data, "boost_pressure")
    IN IF throttle > 80 /\ rpm > 4000 /\ boost > 5
       THEN "performance_driving"
       ELSE IF speed < 30 THEN "city_traffic"
       ELSE IF speed > 80 /\ throttle < 30 THEN "highway_cruising"
       ELSE IF 20 <= throttle /\ throttle <= 60 /\ 2000 <= rpm /\ rpm <= 3500
       THEN "normal_cruising"
       ELSE IF throttle < 10 /\ speed > 20 THEN "deceleration"
       ELSE "transitional"

_get_driving_context(data) ==
    LET rpm == Get(data, "rpm")
        throttle == Get(data, "throttle_position")
        speed == Get(data, "speed")
        boost == Get(data, "boost_pressure")
    IN IF speed < 30 THEN "city_traffic"
       ELSE IF speed > 80 /\ throttle < 30 THEN "highway_cruising"
       ELSE IF throttle > 80 /\ rpm > 4000 /\ boost > 5
       THEN "performance_driving"
       ELSE IF 20 <= throttle /\ throttle <= 60 /\ 2000 <= rpm /\ rpm <= 3500
       THEN "normal_cruising"
       ELSE IF throttle < 10 /\ speed > 20 THEN "deceleration"
       ELSE "transitional"

\* seq[-n:]
LastN(seq, n) ==
    SubSeq(seq, IF Len(seq) > n THEN Len(seq) - n + 1 ELSE 1, Len(seq))

\* 'keep data manageable': the cut of driving_data after the append
KeepManageable_uncut(appended) == appended

KeepManageable(appended) ==
    IF Len(appended) > MaxDrivingData
    THEN LastN(appended, MaxDrivingData)
    ELSE appended

\* the data _analyze_driving_patterns reads
recent_data == LastN(driving_data, RecentWindow)

\* the real-time data explored
CitySample == [rpm |-> 1500, throttle_position |-> 15, speed |-> 20]

PerformanceSample ==
    [rpm |-> 5500, throttle_position |-> 90, speed |-> 100,
     boost_pressure |-> 12]

TunerData == {CitySample, PerformanceSample}

DataPoint(n, real_time_data) ==
    [timestamp |-> n, data |-> real_time_data,
     context |-> _get_driving_context(real_time_data)]

\* the behaviours start from a fresh tuner and from sessions that have
\* collected this many data points
SessionLengths ==
    {0, SampleSizeMin - 1, AnalysisInterval - 1, MaxDrivingData - 1}

\* a session that has collected n data points
LongSession(n) == [i \in 1..n |-> DataPoint(i, CitySample)]

\* analysis_thresholds
AggressiveThrottle == 80
HighRpm == 5000
EfficientRpmMin == 1500
EfficientRpmMax == 3000
BoostThreshold == 10

\* the data points of a window that pass a test
Count(window, Test(_)) ==
    Cardinality({i \in DOMAIN window : Test(window[i])})

\* the aggression and efficiency scoring of _analyze_driving_patterns: a
\* data point adds one for each of three tests
AggressionMetrics(window) ==
    Count(window,
          LAMBDA p : Get(p.data, "throttle_position") > AggressiveThrottle)
    + Count(window, LAMBDA p : Get(p.data, "rpm") > HighRpm)
    + Count(window, LAMBDA p : Get(p.data, "boost_pressure") > BoostThreshold)

EfficiencyMetrics(window) ==
    Count(window,
          LAMBDA p : /\ EfficientRpmMin <= Get(p.data, "rpm")
                     /\ Get(p.data, "rpm") <= EfficientRpmMax)
    + Count(window, LAMBDA p : Get(p.data, "throttle_position") < 50)
    + Count(window,
            LAMBDA p : p.context \in {"highway_cruising", "normal_cruising"})

\* the empty dict _analyze_driving_patterns returns without data
NoAnalysis == [kind |-> "empty"]

_analyze_driving_patterns_perPoint(data) ==
    IF data = <<>> THEN NoAnalysis
    ELSE LET recent == LastN(data, RecentWindow)
             total_points == Len(recent)
         IN [kind |-> "analysis",
             aggression_level |->
                 [num |-> AggressionMetrics(recent), den |-> total_points],
             efficiency_score |->
                 [num |-> EfficiencyMetrics(recent), den |-> total_points],
             data_points_analyzed |-> total_points]

\* _analyze_driving_patterns on the stored data: the scores are kept as the
\* fractions the code divides out; the distributions it also returns are
\* derived from the same window and are left out
_analyze_driving_patterns(data) ==
    IF data = <<>> THEN NoAnalysis
    ELSE LET recent == LastN(data, RecentWindow)
             total_points == Len(recent)
         IN [kind |-> "analysis",
             aggression_level |->
                 [num |-> AggressionMetrics(recent), den |-> total_points * 3],
             efficiency_score |->
                 [num |-> EfficiencyMetrics(recent), den |-> total_points * 3],
             data_points_analyzed |-> total_points]

\* the list stored after _analyze_driving_patterns ran: it reads a slice copy
AfterAnalysis_trimmed(data) == LastN(data, RecentWindow)

AfterAnalysis(data) == data

\* score > tenths / 10
Above(score, tenths) == 10 * score.num > tenths * score.den

\* the branch _generate_tuning_recommendation takes, as the category of the
\* adjustment it creates
Recommend_efficiencyFirst(analysis) ==
    IF Above(analysis.efficiency_score, 7) THEN "efficiency"
    ELSE IF Above(analysis.aggression_level, 7) THEN "performance"
    ELSE IF Above(analysis.aggression_level, 6)
            /\ Above(analysis.efficiency_score, 6)
    THEN "driveability"
    ELSE "adaptation"

Recommend(analysis) ==
    IF Above(analysis.aggression_level, 7) THEN "performance"
    ELSE IF Above(analysis.efficiency_score, 7) THEN "efficiency"
    ELSE IF Above(analysis.aggression_level, 6)
            /\ Above(analysis.efficiency_score, 6)
    THEN "driveability"
    ELSE "adaptation"

\* the parameter of the adjustment each _create_*_adjustment builds
AdjustedParameter(category) ==
    IF category = "performance" THEN "load_targeting_midrange"
    ELSE IF category = "efficiency" THEN "cruise_afr_target"
    ELSE IF category = "driveability" THEN "throttle_response_map"
    ELSE "vvt_optimization_midrange"

NoAdjustment == [kind |-> "None"]

Adjustment(analysis) ==
    [kind |-> "adjustment", category |-> Recommend(analysis),
     parameter |-> AdjustedParameter(Recommend(analysis)),
     points |-> analysis.data_points_analyzed]

\* self.driving_profile: None before the first session, then the style
\* and the confidence (in hundredths)
NoProfile == [style |-> "None", confidence |-> 0]

InitialProfile == [style |-> "balanced", confidence |-> 30]

_update_driving_profile(profile, analysis) ==
    IF profile = NoProfile THEN profile
    ELSE LET new_style ==
                 IF Above(analysis.aggression_level, 7) THEN "performance"
                 ELSE IF Above(analysis.efficiency_score, 7) THEN "economical"
                 ELSE IF Above(analysis.aggression_level, 6)
                         /\ Above(analysis.efficiency_score, 6)
                 THEN "balanced_aggressive"
                 ELSE "balanced"
         IN IF new_style # profile.style /\ analysis.data_points_analyzed > 100
            THEN [style |-> new_style,
                  confidence |-> IF profile.confidence + 10 > 95 THEN 95
                                 ELSE profile.confidence + 10]
            ELSE profile

\* _generate_tuning_recommendation on the stored data: what it returns and
\* the profile it leaves
_generate_tuning_recommendation(data, profile) ==
    IF Len(data) < SampleSizeMin
    THEN [ret |-> NoAdjustment, profile |-> profile]
    ELSE LET analysis == _analyze_driving_patterns(data) IN
         [ret |-> Adjustment(analysis),
          profile |-> _update_driving_profile(profile, analysis)]

\* the test 'if not self.learning_active' of process_driving_data
NotLearning_never == FALSE

NotLearning == ~learning_active

\* what a call returned: the call, the kind of result, the adjustment the
\* recommendation gave (if it ran), and whether a session was active
Returned(via, kind, adjustment) ==
    [via |-> via, kind |-> kind, adjustment |-> adjustment,
     active |-> learning_active]

NoReturn ==
    [via |-> "none", kind |-> "None", adjustment |-> NoAdjustment,
     active |-> FALSE]

start_learning_session ==
    /\ tuner_ops < MaxTunerOps
    /\ tuner_ops' = tuner_ops + 1
    /\ learning_active' = TRUE
    /\ driving_data' = <<>>
    /\ driving_profile' = InitialProfile
    /\ last_analysis' = 0
    /\ tuner_return' =
           Returned("start_learning_session", "message", NoAdjustment)
    /\ UNCHANGED ingested

\* stop_learning_session; without a session begun before, the duration
\* datetime.now() - None raises after the flag is cleared
stop_learning_session ==
    /\ tuner_ops < MaxTunerOps
    /\ tuner_ops' = tuner_ops + 1
    /\ learning_active' = FALSE
    /\ tuner_return' =
           Returned("stop_learning_session",
                    IF driving_profile = NoProfile THEN "raised" ELSE "message",
                    NoAdjustment)
    /\ UNCHANGED <<driving_data, ingested, last_analysis, driving_profile>>

\* process_driving_data(real_time_data); the timestamp of a data point is
\* its arrival number
process_driving_data(real_time_data) ==
    /\ tuner_ops < MaxTunerOps
    /\ tuner_ops' = tuner_ops + 1
    /\ IF NotLearning
       THEN /\ tuner_return' =
                   Returned("process_driving_data", "None", NoAdjustment)
            /\ UNCHANGED <<learning_active, driving_data, ingested,
                           last_analysis, driving_profile>>
       ELSE LET data_point == DataPoint(ingested + 1, real_time_data)
                kept == KeepManageable(Append(driving_data, data_point))
                due == /\ Len(kept) % AnalysisInterval = 0
                       /\ Len(kept) >= SampleSizeMin
                rec == _generate_tuning_recommendation(kept, driving_profile)
            IN /\ ingested' = ingested + 1
               /\ IF due
                  THEN /\ driving_data' = AfterAnalysis(kept)
                       /\ driving_profile' = rec.profile
                       /\ last_analysis' = ingested + 1
                       /\ tuner_return' =
                              Returned("process_driving_data", rec.ret.kind,
                                       rec.ret)
                  ELSE /\ driving_data' = kept
                       /\ tuner_return' =
                              Returned("process_driving_data", "None",
                                       NoAdjustment)
                       /\ UNCHANGED <<last_analysis, driving_profile>>
               /\ UNCHANGED learning_active

\* the intake temperatures _perform_vehicle_health_check averages:
\* statistics.mean raises when there is none among the last 100 data points
HealthCheckRaises(data) ==
    /\ Len(data) >= 100
    /\ \A i \in DOMAIN LastN(data, 100) :
          Get(LastN(data, 100)[i].data, "intake_temp") = 0

\* generate_ai_tuning_report: the error report without enough data, else
\* the analysis, the recommendation and the health check
generate_ai_tuning_report ==
    /\ tuner_ops < MaxTunerOps
    /\ tuner_ops' = tuner_ops + 1
    /\ IF Len(driving_data) < SampleSizeMin
       THEN /\ tuner_return' =
                   Returned("generate_ai_tuning_report", "error",
                            NoAdjustment)
            /\ UNCHANGED <<driving_data, driving_profile>>
       ELSE LET rec == _generate_tuning_recommendation(
                           AfterAnalysis(driving_data), driving_profile)
            IN /\ driving_data' = AfterAnalysis(AfterAnalysis(driving_data))
               /\ driving_profile' = rec.profile
               /\ tuner_return' =
                      Returned("generate_ai_tuning_report",
                               IF HealthCheckRaises(driving_data)
                               THEN "raised" ELSE "report",
                               rec.ret)
    /\ UNCHANGED <<learning_active, ingested, last_analysis>>

\* update_analysis_table of the learning tab: _analyze_driving_patterns()
update_analysis_table ==
    /\ tuner_ops < MaxTunerOps
    /\ tuner_ops' = tuner_ops + 1
    /\ driving_data' = AfterAnalysis(driving_data)
    /\ tuner_return' =
           Returned("_analyze_driving_patterns",
                    _analyze_driving_patterns(driving_data).kind,
                    NoAdjustment)
    /\ UNCHANGED <<learning_active, ingested, last_analysis, driving_profile>>

(***************************************************************************)
(* MazdaAITuner: the classifier, the analysis and the selection as         *)
(* functions of their inputs                                               *)
(***************************************************************************)
VARIABLES
    tuner_call,    \* the call explored: [fn, ...]
    tuner_result   \* its result, TunerNotRun before the call

advisorVars == <<tuner_call, tuner_result>>

TunerNotRun == [kind |-> "not run"]

\* a dict from a record in which Absent marks a missing key
DictOf(r) == [k \in {key \in DOMAIN r : r[key] # Absent} |-> r[k]]

\* the real-time data the classifier is explored on
ContextData ==
    {DictOf(r) : r \in [speed : {Absent, 0, 20, 25, 29, 30, 81},
                        throttle_position : {Absent, 5, 25, 85},
                        rpm : {Absent, 2500, 4500},
                        boost_pressure : {Absent, 6}]}

\* the real-time data the windows are built from: full throttle at high
\* revs with and without a boost reading, cruising with and without boost,
\* high revs on a light throttle, and a dict without any of the keys
WindowData ==
    {[throttle_position |-> 90, rpm |-> 5500, boost_pressure |-> 12,
      speed |-> 100],
     [throttle_position |-> 90, rpm |-> 5500],
     [throttle_position |-> 25, rpm |-> 2500, speed |-> 100],
     [throttle_position |-> 25, rpm |-> 2500, speed |-> 100,
      boost_pressure |-> 12],
     [throttle_position |-> 25, rpm |-> 5500, speed |-> 100,
      boost_pressure |-> 12],
     DictOf([rpm |-> Absent])}

\* the data points of a session that ingested the data of a sequence
PointsOf(seq) == [i \in DOMAIN seq |-> DataPoint(i, seq[i])]

\* windows explored: every sequence of up to MaxWindow data, and sessions
\* of 49, 50 and 60 data points with full throttle at high revs
Windows ==
    {PointsOf(seq) : seq \in UNION {[1..n -> WindowData] : n \in 1..MaxWindow}}

Sessions ==
    {PointsOf([i \in 1..n |-> d]) :
        n \in {SampleSizeMin - 1, SampleSizeMin, ScenarioLength},
        d \in {d \in WindowData : /\ Get(d, "throttle_position") > 80
                                   /\ Get(d, "rpm") > 5000}}

\* analyses explored by the selection: every pair of scores k / ScoreDen
Scores == {[num |-> k, den |-> ScoreDen] : k \in 0..ScoreDen}

Analyses ==
    [kind : {"analysis"}, aggression_level : Scores,
     efficiency_score : Scores, data_points_analyzed : {RecentWindow}]

TunerCalls ==
    [fn : {"_get_driving_context"}, data : ContextData]
    \cup [fn : {"_analyze_driving_patterns"}, window : Windows \cup {<<>>}]
    \cup [fn : {"recommend"}, analysis : Analyses]
    \cup [fn : {"_generate_tuning_recommendation"}, window : Sessions]

NoTunerCall == [fn |-> "none"]

CallGetDrivingContext ==
    /\ tuner_result = TunerNotRun
    /\ tuner_call.fn = "_get_driving_context"
    /\ tuner_result' =
           [kind |-> "context",
            context |-> _get_driving_context(tuner_call.data)]
    /\ UNCHANGED tuner_call

CallAnalyzeDrivingPatterns ==
    /\ tuner_result = TunerNotRun
    /\ tuner_call.fn = "_analyze_driving_patterns"
    /\ tuner_result' = _analyze_driving_patterns(tuner_call.window)
    /\ UNCHANGED tuner_call

\* the selection of _generate_tuning_recommendation on a given analysis
CallRecommend ==
    /\ tuner_result = TunerNotRun
    /\ tuner_call.fn = "recommend"
    /\ tuner_result' = Adjustment(tuner_call.analysis)
    /\ UNCHANGED tuner_call

CallGenerateTuningRecommendation ==
    /\ tuner_result = TunerNotRun
    /\ tuner_call.fn = "_generate_tuning_recommendation"
    /\ tuner_result' =
           _generate_tuning_recommendation(tuner_call.window,
                                           InitialProfile).ret
    /\ UNCHANGED tuner_call

(***************************************************************************)
(* Specifications: one per part; the other parts rest in their initial     *)
(* state.                                                                  *)
(***************************************************************************)
vars ==
    <<safetyVars, dtcVars, elmVars, obdVars, collectVars, tunerVars,
      advisorVars>>

NoCall == [fn |-> "hex_to_dtc", text |-> <<>>]

NoObdCall == [fn |-> "none", response |-> <<>>]

InitSafety ==
    /\ live_data_buffer = <<>>
    /\ live_data_updated = <<>>
    /\ ai_training_dataset = <<>>
    /\ safety_events = <<>>
    /\ protective_actions = <<>>
    /\ arrivals = 0
    /\ eval_log = <<>>
    /\ dtc_input = NoCall
    /\ dtc_output = NotRun
    /\ serial_connection = "None"
    /\ conn = 0
    /\ is_connected = FALSE
    /\ running = FALSE
    /\ monitoring_pids = <<>>
    /\ link = "ok"
    /\ wire = <<>>
    /\ rx = <<>>
    /\ adapter_next = 1
    /\ pc = [t \in Threads |-> "idle"]
    /\ call = [t \in Threads |-> NoCallYet]
    /\ init_k = 0
    /\ pid_idx = 0
    /\ resp = [t \in Threads |-> <<>>]
    /\ ret = NoReturnYet
    /\ sent = [t \in Threads |-> 0]
    /\ connection_status = "none"
    /\ data_received = NoData
    /\ gui_error = FALSE
    /\ connect_opened = FALSE
    /\ connect_result = "none"
    /\ init_failed = FALSE
    /\ stop_returned = FALSE
    /\ gui_ops = 0
    /\ faults = 0
    /\ obd_call = NoObdCall
    /\ obd_result = ObdNotRun
    /\ bt_connected = FALSE
    /\ bt_socket = FALSE
    /\ data_timer = FALSE
    /\ cycle_log = <<>>
    /\ learning_active = FALSE
    /\ driving_data = <<>>
    /\ ingested = 0
    /\ last_analysis = 0
    /\ tuner_ops = 0
    /\ driving_profile = NoProfile
    /\ tuner_return = NoReturn
    /\ tuner_call = NoTunerCall
    /\ tuner_result = TunerNotRun

NextSafety ==
    \/ (\E new_data \in Samples : update_live_data(new_data))
          /\ UNCHANGED <<dtcVars, elmVars, obdVars, collectVars, tunerVars,
                     advisorVars>>
    \/ _safety_check /\ UNCHANGED <<dtcVars, elmVars, obdVars, collectVars, tunerVars,
                     advisorVars>>

SpecSafety == InitSafety /\ [][NextSafety]_vars

InitDtc ==
    /\ live_data_buffer = <<>>
    /\ live_data_updated = <<>>
    /\ ai_training_dataset = <<>>
    /\ safety_events = <<>>
    /\ protective_actions = <<>>
    /\ arrivals = 0
    /\ eval_log = <<>>
    /\ dtc_input \in
          [fn : {"hex_to_dtc"}, text : HexCodes]
          \cup [fn : {"parse_dtc_codes"}, text : DtcResponses]
          \cup BytePairs
    /\ dtc_output = NotRun
    /\ serial_connection = "None"
    /\ conn = 0
    /\ is_connected = FALSE
    /\ running = FALSE
    /\ monitoring_pids = <<>>
    /\ link = "ok"
    /\ wire = <<>>
    /\ rx = <<>>
    /\ adapter_next = 1
    /\ pc = [t \in Threads |-> "idle"]
    /\ call = [t \in Threads |-> NoCallYet]
    /\ init_k = 0
    /\ pid_idx = 0
    /\ resp = [t \in Threads |-> <<>>]
    /\ ret = NoReturnYet
    /\ sent = [t \in Threads |-> 0]
    /\ connection_status = "none"
    /\ data_received = NoData
    /\ gui_error = FALSE
    /\ connect_opened = FALSE
    /\ connect_result = "none"
    /\ init_failed = FALSE
    /\ stop_returned = FALSE
    /\ gui_ops = 0
    /\ faults = 0
    /\ obd_call = NoObdCall
    /\ obd_result = ObdNotRun
    /\ bt_connected = FALSE
    /\ bt_socket = FALSE
    /\ data_timer = FALSE
    /\ cycle_log = <<>>
    /\ learning_active = FALSE
    /\ driving_data = <<>>
    /\ ingested = 0
    /\ last_analysis = 0
    /\ tuner_ops = 0
    /\ driving_profile = NoProfile
    /\ tuner_return = NoReturn
    /\ tuner_call = NoTunerCall
    /\ tuner_result = TunerNotRun

NextDtc ==
    \/ CallHexToDtc /\ UNCHANGED <<safetyVars, elmVars, obdVars, collectVars, tunerVars,
                     advisorVars>>
    \/ CallParseDtcCodes /\ UNCHANGED <<safetyVars, elmVars, obdVars, collectVars, tunerVars,
                     advisorVars>>
    \/ CallBtHexToDtc /\ UNCHANGED <<safetyVars, elmVars, obdVars, collectVars, tunerVars,
                     advisorVars>>

SpecDtc == InitDtc /\ [][NextDtc]_vars

InitElm ==
    /\ live_data_buffer = <<>>
    /\ live_data_updated = <<>>
    /\ ai_training_dataset = <<>>
    /\ safety_events = <<>>
    /\ protective_actions = <<>>
    /\ arrivals = 0
    /\ eval_log = <<>>
    /\ dtc_input = NoCall
    /\ dtc_output = NotRun
    /\ serial_connection = "None"
    /\ conn = 0
    /\ is_connected = FALSE
    /\ running = FALSE
    /\ monitoring_pids = <<>>
    /\ link = "ok"
    /\ wire = <<>>
    /\ rx = <<>>
    /\ adapter_next = 1
    /\ pc = [t \in Threads |-> "idle"]
    /\ call = [t \in Threads |-> NoCallYet]
    /\ init_k = 0
    /\ pid_idx = 0
    /\ resp = [t \in Threads |-> <<>>]
    /\ ret = NoReturnYet
    /\ sent = [t \in Threads |-> 0]
    /\ connection_status = "none"
    /\ data_received = NoData
    /\ gui_error = FALSE
    /\ connect_opened = FALSE
    /\ connect_result = "none"
    /\ init_failed = FALSE
    /\ stop_returned = FALSE
    /\ gui_ops = 0
    /\ faults = 0
    /\ obd_call = NoObdCall
    /\ obd_result = ObdNotRun
    /\ bt_connected = FALSE
    /\ bt_socket = FALSE
    /\ data_timer = FALSE
    /\ cycle_log = <<>>
    /\ learning_active = FALSE
    /\ driving_data = <<>>
    /\ ingested = 0
    /\ last_analysis = 0
    /\ tuner_ops = 0
    /\ driving_profile = NoProfile
    /\ tuner_return = NoReturn
    /\ tuner_call = NoTunerCall
    /\ tuner_result = TunerNotRun

NextElm ==
    \/ ConnectToDevice /\ UNCHANGED <<safetyVars, dtcVars, obdVars,
                     collectVars, tunerVars,
                     advisorVars>>
    \/ ConnectDone /\ UNCHANGED <<safetyVars, dtcVars, obdVars,
                     collectVars, tunerVars,
                     advisorVars>>
    \/ StartMonitoring /\ UNCHANGED <<safetyVars, dtcVars, obdVars,
                     collectVars, tunerVars,
                     advisorVars>>
    \/ Disconnect /\ UNCHANGED <<safetyVars, dtcVars, obdVars,
                     collectVars, tunerVars,
                     advisorVars>>
    \/ DisconnectClose /\ UNCHANGED <<safetyVars, dtcVars, obdVars,
                     collectVars, tunerVars,
                     advisorVars>>
    \/ DisconnectFlag /\ UNCHANGED <<safetyVars, dtcVars, obdVars,
                     collectVars, tunerVars,
                     advisorVars>>
    \/ (\E op \in QueryOps : Query(op)) /\ UNCHANGED <<safetyVars, dtcVars, obdVars,
                     collectVars, tunerVars,
                     advisorVars>>
    \/ RunWhile /\ UNCHANGED <<safetyVars, dtcVars, obdVars,
                     collectVars, tunerVars,
                     advisorVars>>
    \/ RunFor /\ UNCHANGED <<safetyVars, dtcVars, obdVars,
                     collectVars, tunerVars,
                     advisorVars>>
    \/ (\E t \in Threads : ScCheck(t)) /\ UNCHANGED <<safetyVars, dtcVars, obdVars,
                     collectVars, tunerVars,
                     advisorVars>>
    \/ (\E t \in Threads : ScWrite(t)) /\ UNCHANGED <<safetyVars, dtcVars, obdVars,
                     collectVars, tunerVars,
                     advisorVars>>
    \/ (\E t \in Threads : RrCheck(t)) /\ UNCHANGED <<safetyVars, dtcVars, obdVars,
                     collectVars, tunerVars,
                     advisorVars>>
    \/ (\E t \in Threads : RrRead(t)) /\ UNCHANGED <<safetyVars, dtcVars, obdVars,
                     collectVars, tunerVars,
                     advisorVars>>
    \/ (\E t \in Threads : RrRaise(t)) /\ UNCHANGED <<safetyVars, dtcVars, obdVars,
                     collectVars, tunerVars,
                     advisorVars>>
    \/ (\E t \in Threads : RrTimeout(t)) /\ UNCHANGED <<safetyVars, dtcVars, obdVars,
                     collectVars, tunerVars,
                     advisorVars>>
    \/ AdapterRespond /\ UNCHANGED <<safetyVars, dtcVars, obdVars,
                     collectVars, tunerVars,
                     advisorVars>>
    \/ LinkBreaks /\ UNCHANGED <<safetyVars, dtcVars, obdVars,
                     collectVars, tunerVars,
                     advisorVars>>

SpecElm == InitElm /\ [][NextElm]_vars

InitObd ==
    /\ live_data_buffer = <<>>
    /\ live_data_updated = <<>>
    /\ ai_training_dataset = <<>>
    /\ safety_events = <<>>
    /\ protective_actions = <<>>
    /\ arrivals = 0
    /\ eval_log = <<>>
    /\ dtc_input = NoCall
    /\ dtc_output = NotRun
    /\ serial_connection = "None"
    /\ conn = 0
    /\ is_connected = FALSE
    /\ running = FALSE
    /\ monitoring_pids = <<>>
    /\ link = "ok"
    /\ wire = <<>>
    /\ rx = <<>>
    /\ adapter_next = 1
    /\ pc = [t \in Threads |-> "idle"]
    /\ call = [t \in Threads |-> NoCallYet]
    /\ init_k = 0
    /\ pid_idx = 0
    /\ resp = [t \in Threads |-> <<>>]
    /\ ret = NoReturnYet
    /\ sent = [t \in Threads |-> 0]
    /\ connection_status = "none"
    /\ data_received = NoData
    /\ gui_error = FALSE
    /\ connect_opened = FALSE
    /\ connect_result = "none"
    /\ init_failed = FALSE
    /\ stop_returned = FALSE
    /\ gui_ops = 0
    /\ faults = 0
    /\ obd_call \in ObdCalls
    /\ obd_result = ObdNotRun
    /\ bt_connected = FALSE
    /\ bt_socket = FALSE
    /\ data_timer = FALSE
    /\ cycle_log = <<>>
    /\ learning_active = FALSE
    /\ driving_data = <<>>
    /\ ingested = 0
    /\ last_analysis = 0
    /\ tuner_ops = 0
    /\ driving_profile = NoProfile
    /\ tuner_return = NoReturn
    /\ tuner_call = NoTunerCall
    /\ tuner_result = TunerNotRun

NextObd ==
    \/ CallParseObdResponse /\ UNCHANGED <<safetyVars, dtcVars, elmVars,
                     collectVars, tunerVars,
                     advisorVars>>
    \/ CallGetRpm /\ UNCHANGED <<safetyVars, dtcVars, elmVars,
                     collectVars, tunerVars,
                     advisorVars>>
    \/ CallGetCoolantTemp /\ UNCHANGED <<safetyVars, dtcVars, elmVars,
                     collectVars, tunerVars,
                     advisorVars>>
    \/ CallClearDtcs /\ UNCHANGED <<safetyVars, dtcVars, elmVars,
                     collectVars, tunerVars,
                     advisorVars>>
    \/ CallClearDiagnosticCodes /\ UNCHANGED <<safetyVars, dtcVars, elmVars,
                     collectVars, tunerVars,
                     advisorVars>>

SpecObd == InitObd /\ [][NextObd]_vars

InitCollect ==
    /\ live_data_buffer = <<>>
    /\ live_data_updated = <<>>
    /\ ai_training_dataset = <<>>
    /\ safety_events = <<>>
    /\ protective_actions = <<>>
    /\ arrivals = 0
    /\ eval_log = <<>>
    /\ dtc_input = NoCall
    /\ dtc_output = NotRun
    /\ serial_connection = "None"
    /\ conn = 0
    /\ is_connected = FALSE
    /\ running = FALSE
    /\ monitoring_pids = <<>>
    /\ link = "ok"
    /\ wire = <<>>
    /\ rx = <<>>
    /\ adapter_next = 1
    /\ pc = [t \in Threads |-> "idle"]
    /\ call = [t \in Threads |-> NoCallYet]
    /\ init_k = 0
    /\ pid_idx = 0
    /\ resp = [t \in Threads |-> <<>>]
    /\ ret = NoReturnYet
    /\ sent = [t \in Threads |-> 0]
    /\ connection_status = "none"
    /\ data_received = NoData
    /\ gui_error = FALSE
    /\ connect_opened = FALSE
    /\ connect_result = "none"
    /\ init_failed = FALSE
    /\ stop_returned = FALSE
    /\ gui_ops = 0
    /\ faults = 0
    /\ obd_call = NoObdCall
    /\ obd_result = ObdNotRun
    /\ bt_connected = FALSE
    /\ bt_socket = FALSE
    /\ data_timer = FALSE
    /\ cycle_log = <<>>
    /\ learning_active = FALSE
    /\ driving_data = <<>>
    /\ ingested = 0
    /\ last_analysis = 0
    /\ tuner_ops = 0
    /\ driving_profile = NoProfile
    /\ tuner_return = NoReturn
    /\ tuner_call = NoTunerCall
    /\ tuner_result = TunerNotRun

NextCollect ==
    \/ connect_vehicle /\ UNCHANGED <<safetyVars, dtcVars, elmVars, obdVars, tunerVars,
                     advisorVars>>
    \/ disconnect_vehicle
          /\ UNCHANGED <<safetyVars, dtcVars, elmVars, obdVars, tunerVars,
                     advisorVars>>
    \/ collect_real_live_data
          /\ UNCHANGED <<dtcVars, elmVars, obdVars, tunerVars,
                     advisorVars>>

SpecCollect == InitCollect /\ [][NextCollect]_vars

InitTuner ==
    /\ live_data_buffer = <<>>
    /\ live_data_updated = <<>>
    /\ ai_training_dataset = <<>>
    /\ safety_events = <<>>
    /\ protective_actions = <<>>
    /\ arrivals = 0
    /\ eval_log = <<>>
    /\ dtc_input = NoCall
    /\ dtc_output = NotRun
    /\ serial_connection = "None"
    /\ conn = 0
    /\ is_connected = FALSE
    /\ running = FALSE
    /\ monitoring_pids = <<>>
    /\ link = "ok"
    /\ wire = <<>>
    /\ rx = <<>>
    /\ adapter_next = 1
    /\ pc = [t \in Threads |-> "idle"]
    /\ call = [t \in Threads |-> NoCallYet]
    /\ init_k = 0
    /\ pid_idx = 0
    /\ resp = [t \in Threads |-> <<>>]
    /\ ret = NoReturnYet
    /\ sent = [t \in Threads |-> 0]
    /\ connection_status = "none"
    /\ data_received = NoData
    /\ gui_error = FALSE
    /\ connect_opened = FALSE
    /\ connect_result = "none"
    /\ init_failed = FALSE
    /\ stop_returned = FALSE
    /\ gui_ops = 0
    /\ faults = 0
    /\ obd_call = NoObdCall
    /\ obd_result = ObdNotRun
    /\ bt_connected = FALSE
    /\ bt_socket = FALSE
    /\ data_timer = FALSE
    /\ cycle_log = <<>>
    /\ \E n \in SessionLengths :
          /\ learning_active = (n > 0)
          /\ driving_data = LongSession(n)
          /\ ingested = n
          /\ last_analysis = (n \div AnalysisInterval) * AnalysisInterval
          /\ driving_profile = IF n > 0 THEN InitialProfile ELSE NoProfile
    /\ tuner_ops = 0
    /\ tuner_return = NoReturn
    /\ tuner_call = NoTunerCall
    /\ tuner_result = TunerNotRun

NextTuner ==
    \/ start_learning_session
          /\ UNCHANGED <<safetyVars, dtcVars, elmVars, obdVars, collectVars,
                     advisorVars>>
    \/ stop_learning_session
          /\ UNCHANGED <<safetyVars, dtcVars, elmVars, obdVars, collectVars,
                     advisorVars>>
    \/ (\E real_time_data \in TunerData : process_driving_data(real_time_data))
          /\ UNCHANGED <<safetyVars, dtcVars, elmVars, obdVars, collectVars,
                     advisorVars>>
    \/ generate_ai_tuning_report
          /\ UNCHANGED <<safetyVars, dtcVars, elmVars, obdVars, collectVars,
                     advisorVars>>
    \/ update_analysis_table
          /\ UNCHANGED <<safetyVars, dtcVars, elmVars, obdVars, collectVars,
                     advisorVars>>

SpecTuner == InitTuner /\ [][NextTuner]_vars

InitAdvisor ==
    /\ live_data_buffer = <<>>
    /\ live_data_updated = <<>>
    /\ ai_training_dataset = <<>>
    /\ safety_events = <<>>
    /\ protective_actions = <<>>
    /\ arrivals = 0
    /\ eval_log = <<>>
    /\ dtc_input = NoCall
    /\ dtc_output = NotRun
    /\ serial_connection = "None"
    /\ conn = 0
    /\ is_connected = FALSE
    /\ running = FALSE
    /\ monitoring_pids = <<>>
    /\ link = "ok"
    /\ wire = <<>>
    /\ rx = <<>>
    /\ adapter_next = 1
    /\ pc = [t \in Threads |-> "idle"]
    /\ call = [t \in Threads |-> NoCallYet]
    /\ init_k = 0
    /\ pid_idx = 0
    /\ resp = [t \in Threads |-> <<>>]
    /\ ret = NoReturnYet
    /\ sent = [t \in Threads |-> 0]
    /\ connection_status = "none"
    /\ data_received = NoData
    /\ gui_error = FALSE
    /\ connect_opened = FALSE
    /\ connect_result = "none"
    /\ init_failed = FALSE
    /\ stop_returned = FALSE
    /\ gui_ops = 0
    /\ faults = 0
    /\ obd_call = NoObdCall
    /\ obd_result = ObdNotRun
    /\ bt_connected = FALSE
    /\ bt_socket = FALSE
    /\ data_timer = FALSE
    /\ cycle_log = <<>>
    /\ learning_active = FALSE
    /\ driving_data = <<>>
    /\ ingested = 0
    /\ last_analysis = 0
    /\ tuner_ops = 0
    /\ driving_profile = NoProfile
    /\ tuner_return = NoReturn
    /\ tuner_call \in TunerCalls
    /\ tuner_result = TunerNotRun

NextAdvisor ==
    \/ CallGetDrivingContext
          /\ UNCHANGED <<safetyVars, dtcVars, elmVars, obdVars, collectVars,
                         tunerVars>>
    \/ CallAnalyzeDrivingPatterns
          /\ UNCHANGED <<safetyVars, dtcVars, elmVars, obdVars, collectVars,
                         tunerVars>>
    \/ CallRecommend
          /\ UNCHANGED <<safetyVars, dtcVars, elmVars, obdVars, collectVars,
                         tunerVars>>
    \/ CallGenerateTuningRecommendation
          /\ UNCHANGED <<safetyVars, dtcVars, elmVars, obdVars, collectVars,
                         tunerVars>>

SpecAdvisor == InitAdvisor /\ [][NextAdvisor]_vars

(***************************************************************************)
(* Claims about the safety monitor (checked under SpecSafety).             *)
(***************************************************************************)
MonitoredParameters == {"boost_pressure", "fuel_pressure_high", "knock_retard"}

\* the sample the k-th evaluation read
SampleAt(k) ==
    live_data_buffer[eval_log[k].read - (arrivals - Len(live_data_buffer))]

\* the critical condition of a parameter, as the thresholds table states it
BeyondCritical(p, d) ==
    /\ d[p] # Absent
    /\ IF p = "boost_pressure" THEN d[p] > BoostCritical
       ELSE IF p = "fuel_pressure_high" THEN d[p] < HpfpCritical
       ELSE d[p] > KnockCritical

\* the alarm state computed from a sample for a parameter, and the state
\* stored after the k-th evaluation (a sample without the key leaves it alone)
ComputedState(p, d) == IF BeyondCritical(p, d) THEN "Critical" ELSE "Normal"

RECURSIVE StoredState(_, _)
StoredState(p, k) ==
    IF k = 0 THEN "Normal"
    ELSE IF SampleAt(k)[p] = Absent THEN StoredState(p, k - 1)
    ELSE ComputedState(p, SampleAt(k))

\* the events the k-th evaluation emitted for a parameter
EventsOf(p, k) ==
    {i \in DOMAIN safety_events :
        safety_events[i].timestamp = k /\ safety_events[i].parameter = p}

LevelOf(v, warning, critical, shutdown) ==
    IF v >= shutdown THEN "Shutdown"
    ELSE IF v >= critical THEN "Critical"
    ELSE IF v >= warning THEN "Warning"
    ELSE "Normal"

ClaimedLevel(p, v) ==
    IF p = "boost_pressure"
    THEN LevelOf(v, BoostWarning, BoostCritical, BoostShutdown)
    ELSE LevelOf(v, KnockWarning, KnockCritical, KnockShutdown)

\* the level the k-th evaluation reported for a parameter: the severity of
\* the event it emitted, Normal when it emitted none
ReportedLevel(p, k) ==
    IF EventsOf(p, k) = {} THEN "Normal"
    ELSE LET i == CHOOSE i \in EventsOf(p, k) : TRUE
         IN IF safety_events[i].severity = "critical" THEN "Critical"
            ELSE IF safety_events[i].severity = "shutdown" THEN "Shutdown"
            ELSE "Warning"

\* C16 (as claimed): for boost pressure and knock retard the alarm state
\* computed from a sample value v is Shutdown iff v >= shutdown, Critical iff
\* critical <= v < shutdown, Warning iff warning <= v < critical, and Normal
\* otherwise.
C16_AlarmLevels ==
    \A k \in DOMAIN eval_log : \A p \in {"boost_pressure", "knock_retard"} :
        SampleAt(k)[p] # Absent
            => ReportedLevel(p, k) = ClaimedLevel(p, SampleAt(k)[p])

ActionsFor(event) ==
    IF event.action = "reduce_boost"
    THEN <<[call |-> "_reduce_boost_pressure", arg |-> event.value]>>
    ELSE IF event.action = "emergency_rich_afr"
    THEN <<[call |-> "_enrich_air_fuel_ratio", arg |-> Absent]>>
    ELSE <<[call |-> "_reduce_ignition_timing", arg |-> Absent],
           [call |-> "_reduce_boost_pressure", arg |-> SafeBoostLevel]>>

RECURSIVE ActionsForAll(_)
ActionsForAll(events) ==
    IF events = <<>> THEN <<>>
    ELSE ActionsFor(Head(events)) \o ActionsForAll(Tail(events))

RECURSIVE ReportedState(_, _)
ReportedState(p, k) ==
    IF k = 0 THEN "Normal"
    ELSE IF SampleAt(k)[p] = Absent THEN ReportedState(p, k - 1)
    ELSE ReportedLevel(p, k)

LevelRank(level) ==
    IF level = "Normal" THEN 0
    ELSE IF level = "Warning" THEN 1
    ELSE IF level = "Critical" THEN 2
    ELSE 3

InFlight(t) == pc[t] \in {"rr_check", "rr_loop"}

\* the commands written to the c-th Transport, in order
ConnWrites(c) == SelectSeq(wire, LAMBDA w : w.conn = c)

Range(seq) == {seq[i] : i \in DOMAIN seq}

\* C3 (as claimed): at most one request is in flight on a Transport: two
\* callers are never both between the write of their command and the end of
\* the read of its response on the same Transport, and the text a caller
\* receives is the response to its own command only.
C3_OneRequestInFlight ==
    /\ (InFlight("gui") /\ InFlight("poll"))
          => wire[sent["gui"]].conn # wire[sent["poll"]].conn
    /\ ret.kind = "text" => \A i \in DOMAIN ret.text : ret.text[i].cmd = ret.asked

\* C4: once disconnect has returned, and until a connect begins, no step
\* appends a write of the poll loop to the wire, wherever in its cycle the
\* poll loop was when disconnect ran.
C4_NoPollWriteAfterStop ==
    [][stop_returned =>
          \/ wire' = wire
          \/ wire'[Len(wire')].who # "poll"]_vars

\* C4 witness: disconnect ran to its end while the poll loop was between the
\* open check and the write of send_command; the write is still to come.
C4_Witness ==
    /\ stop_returned
    /\ pc["poll"] = "sc_write"
    /\ link = "ok"

\* the state a completed disconnect leaves
Stopped == ~running /\ ~is_connected /\ serial_connection # "open"

\* a step of the GUI thread inside disconnect
DisconnectStep ==
    /\ pc'["gui"] # pc["gui"]
    /\ pc["gui"] \in {"dc_close", "dc_flag"} \/ pc'["gui"] = "dc_close"

\* C5: after disconnect has returned the interface is stopped, and a
\* disconnect called on a stopped interface raises nothing, writes nothing
\* and leaves it stopped as it was.
C5_StopIdempotent ==
    [][/\ stop_returned' => Stopped'
       /\ (Stopped /\ DisconnectStep) =>
             /\ UNCHANGED <<running, is_connected, serial_connection, wire>>
             /\ ~gui_error']_vars

\* C5 witness: after a connection was made and stopped, a second disconnect
\* is at its last statement.
C5_Witness ==
    /\ stop_returned
    /\ serial_connection = "closed"
    /\ pc["gui"] = "dc_flag"

\* C6 (as claimed): on every Transport the first five writes are ATZ, ATE0,
\* ATL0, ATH1, ATSP0 in this order, and none of them is written again.
C6_StartupOnceInOrder ==
    \A c \in 1..conn :
        LET writes == ConnWrites(c) IN
        \A i \in DOMAIN writes :
            IF i <= Len(InitCommands)
            THEN writes[i].cmd = InitCommands[i]
            ELSE writes[i].cmd \notin Range(InitCommands)

\* C7 (as claimed): a connect in which a startup command failed (no complete
\* answer, a rejection, or a raising send) does not go on to report success,
\* mark the interface connected or start polling.
C7_FailedStartupAborts ==
    init_failed =>
        /\ connect_result # "True"
        /\ pc["gui"] \notin {"cn_done", "start_monitoring"}

\* C8 (as claimed): when connect_to_device has opened the port and returns
\* False, the port is not left open.
C8_FailedConnectCloses ==
    (connect_opened /\ connect_result = "False") => serial_connection # "open"

CategoryLetters == <<"P", "C", "B", "U">>

\* the code the decoding rule assigns to four hex digits
ExpectedDtc(hex_code) ==
    LET n == HexVal(hex_code[1]) IN
    <<CategoryLetters[(n \div 4) + 1], HexDigits[(n % 4) + 1]>>
        \o <<hex_code[2], hex_code[3], hex_code[4]>>

FourHexDigits(text) == Len(text) = 4 /\ \A i \in 1..4 : IsHexChar(text[i])

ScenarioResponse ==
    <<"4", "3", " ", "0", "1", " ", "2", "3", " ", "4", "5", " ", "6", "7">>

\* C10: hex_to_dtc of four hex digits n d1 d2 d3 is the category letter of n
\* (P for 0-3, C for 4-7, B for 8-11, U for 12-15), the digit n mod 4 and
\* d1 d2 d3 unchanged; the response 43 01 23 45 67 decodes to [P0123, C0567].
C10_HexToDtcRule ==
    /\ (dtc_input.fn = "hex_to_dtc" /\ dtc_output # NotRun
        /\ FourHexDigits(dtc_input.text))
          => dtc_output = ExpectedDtc(dtc_input.text)
    /\ (dtc_input.fn = "parse_dtc_codes" /\ dtc_output # NotRun
        /\ dtc_input.text = ScenarioResponse)
          => dtc_output = <<<<"P", "0", "1", "2", "3">>, <<"C", "0", "5", "6", "7">>>>

\* C10 witness: the scenario response has been decoded to two codes.
C10_Witness ==
    /\ dtc_input = [fn |-> "parse_dtc_codes", text |-> ScenarioResponse]
    /\ dtc_output # NotRun
    /\ Len(dtc_output) = 2

\* re-encoding of a trouble code: the category letter and the code-space
\* digit give the first nibble back, the other three digits are kept
ReEncode(dtc) ==
    LET letter == CHOOSE i \in DOMAIN CategoryLetters : CategoryLetters[i] = dtc[1]
    IN <<HexDigits[4 * (letter - 1) + HexVal(dtc[2]) + 1]>> \o SubSeq(dtc, 3, 5)

\* C11: for every body of four hex digits, hex_to_dtc gives a code of five
\* characters whose re-encoding is the body again; hence two different
\* bodies never give the same code.
C11_HexToDtcRoundTrip ==
    (dtc_input.fn = "hex_to_dtc" /\ dtc_output # NotRun
     /\ FourHexDigits(dtc_input.text))
        => /\ Len(dtc_output) = 5
           /\ dtc_output[1] \in {"P", "C", "B", "U"}
           /\ dtc_output[2] \in {"0", "1", "2", "3"}
           /\ ReEncode(dtc_output) = dtc_input.text

\* C11 witness: the body FFFF has been decoded to U3FFF.
C11_Witness ==
    /\ dtc_input = [fn |-> "hex_to_dtc", text |-> <<"F", "F", "F", "F">>]
    /\ dtc_output = <<"U", "3", "F", "F", "F">>

\* what parse_dtc_codes looks at: the response without blanks and prompt
CleanResponse(response) == Strip(Remove(Remove(response, " "), ">"))

\* group by group: a group of four hex digits gives its code, any other
\* group gives nothing and the groups after it are decoded all the same
RECURSIVE CodesOfGroups(_)
CodesOfGroups(dtc_data) ==
    IF Len(dtc_data) < 4 THEN <<>>
    ELSE LET group == SubSeq(dtc_data, 1, 4) IN
         (IF FourHexDigits(group) THEN <<ExpectedDtc(group)>> ELSE <<>>)
             \o CodesOfGroups(SubSeq(dtc_data, 5, Len(dtc_data)))

\* C12 (as claimed): a response that begins with the marker 43 yields the
\* code of each 4-character group that can be decoded, whatever the groups
\* before and after it are; a response without the marker yields no codes.
C12_GroupsIndependent ==
    (dtc_input.fn = "parse_dtc_codes" /\ dtc_output # NotRun)
        => LET clean_response == CleanResponse(dtc_input.text) IN
           dtc_output =
               IF StartsWith(clean_response, <<"4", "3">>)
               THEN CodesOfGroups(SubSeq(clean_response, 3, Len(clean_response)))
               ELSE <<>>

(***************************************************************************)
(* Claims about the response decoders and the clearing of trouble codes    *)
(* (checked under SpecObd).                                                *)
(***************************************************************************)
\* the positive acknowledgement of a Mode-04 request
AckMarker == <<"4", "4">>

\* C13 (as claimed): clearing reports success only when it is connected and
\* the response holds the acknowledgement 44; the stored codes are emptied
\* when it reports success and are left as they were when it reports failure.
C13_ClearOnlyOnAck ==
    (obd_call.fn \in {"clear_dtcs", "clear_diagnostic_codes"}
     /\ obd_result # ObdNotRun)
        => /\ obd_result.success =>
                 /\ ~Falsy(obd_call.response)
                 /\ Contains(obd_call.response, AckMarker)
                 /\ obd_call.fn = "clear_diagnostic_codes" => obd_call.connected
           /\ obd_result.codes =
                 IF obd_result.success THEN <<>> ELSE obd_call.codes

\* the raw responses 41 0C A B and 41 05 A
RpmResponse(a, b) == <<"4", "1", " ", "0", "C", " ">> \o a \o <<" ">> \o b

CoolantResponse(a) == <<"4", "1", " ", "0", "5", " ">> \o a

\* C14 (as claimed): the RPM decoders give (256*A + B)/4 for the response
\* 41 0C A B, and so 1726 for 41 0C 1A F8.
C14_RpmDecode ==
    (obd_result # ObdNotRun
     /\ \/ obd_call.fn = "_get_rpm"
        \/ obd_call.fn = "parse_obd_response" /\ obd_call.pid = "010C")
        => \A a \in DataByteTexts, b \in DataByteTexts :
              obd_call.response = RpmResponse(a, b)
                  => /\ obd_result.kind = "value"
                     /\ 4 * obd_result.num
                            = (256 * HexInt(a) + HexInt(b)) * obd_result.den

\* C15 (as claimed): the coolant-temperature decoders give A - 40 for the
\* response 41 05 A, and so 50 for 41 05 5A.
C15_CoolantDecode ==
    (obd_result # ObdNotRun
     /\ \/ obd_call.fn = "_get_coolant_temp"
        \/ obd_call.fn = "parse_obd_response" /\ obd_call.pid = "0105")
        => \A a \in DataByteTexts :
              obd_call.response = CoolantResponse(a)
                  => /\ obd_result.kind = "value"
                     /\ obd_result.num = (HexInt(a) - 40) * obd_result.den

(***************************************************************************)
(* Claims about the live-data cycle (checked under SpecCollect).           *)
(***************************************************************************)
\* the parameters that decoded in the c-th cycle
Decoded(c) == {k \in CollectorKeys : cycle_log[c].results[k] # NoValue}

\* C19: a cycle in which no parameter decoded accepts no sample: nothing is
\* appended to the buffer and nothing is published; a cycle with a decoded
\* parameter appends and publishes exactly one sample, whose keys are the
\* parameters that decoded and whose values are decoded values of those
\* parameters.  (The buffer holds 500 samples, so the n-th accepted sample is
\* its n-th element here.)
C19_EmptyCycleDropped ==
    /\ Len(live_data_buffer) = arrivals
    /\ live_data_updated = live_data_buffer
    /\ arrivals = Cardinality({c \in DOMAIN cycle_log : Decoded(c) # {}})
    /\ \A c \in DOMAIN cycle_log :
          IF Decoded(c) = {}
          THEN cycle_log[c].after = cycle_log[c].before
          ELSE /\ cycle_log[c].after = cycle_log[c].before + 1
               /\ LET sample == live_data_buffer[cycle_log[c].after] IN
                  /\ DOMAIN sample = Decoded(c)
                  /\ \A k \in Decoded(c) :
                        \E j \in 1..c : sample[k] = cycle_log[j].results[k]

\* C19 witness: a cycle in which RPM, speed and engine load decoded, then a
\* cycle in which nothing decoded, and one sample in the buffer.
C19_Witness ==
    /\ Len(cycle_log) = 2
    /\ Decoded(1) = {"rpm", "speed", "engine_load"}
    /\ Decoded(2) = {}
    /\ Len(live_data_buffer) = 1
    /\ Len(live_data_updated) = 1

(***************************************************************************)
(* Claims about the stored driving data (checked under SpecTuner).         *)
(***************************************************************************)
\* C20: the stored driving data never exceed 3600 data points and the data
\* the analysis reads never exceed 200; what is stored is the most recent
\* data points in arrival order, so an overflow discarded the oldest.
C20_WindowBounded ==
    /\ Len(driving_data) <= MaxDrivingData
    /\ Len(recent_data) <= RecentWindow
    /\ \A i \in DOMAIN driving_data :
          driving_data[i].timestamp = ingested - Len(driving_data) + i
    /\ \A i \in DOMAIN recent_data :
          recent_data[i].timestamp = ingested - Len(recent_data) + i

\* C20 witness: 3601 data points arrived in one session; 3600 are stored,
\* the first of them being the second that arrived.
C20_Witness ==
    /\ ingested = MaxDrivingData + 1
    /\ Len(driving_data) = MaxDrivingData
    /\ driving_data[1].timestamp = 2
    /\ driving_data[MaxDrivingData].timestamp = MaxDrivingData + 1

(***************************************************************************)
(* Claims about the classifier, the analysis and the selection (checked    *)
(* under SpecAdvisor).                                                     *)
(***************************************************************************)
\* a fraction lies in [0, 1]
InUnitInterval(score) ==
    score.den > 0 /\ 0 <= score.num /\ score.num <= score.den

\* C21: for every non-empty window the analysis returns an aggression level
\* and an efficiency score within [0, 1], each a count of at most three
\* points per analysed data point over three times their number.
C21_ScoresInUnitInterval ==
    (tuner_call.fn = "_analyze_driving_patterns"
     /\ tuner_result # TunerNotRun /\ tuner_call.window # <<>>)
        => /\ tuner_result.kind = "analysis"
           /\ tuner_result.data_points_analyzed = Len(tuner_call.window)
           /\ tuner_result.aggression_level.den = 3 * Len(tuner_call.window)
           /\ tuner_result.efficiency_score.den = 3 * Len(tuner_call.window)
           /\ InUnitInterval(tuner_result.aggression_level)
           /\ InUnitInterval(tuner_result.efficiency_score)

\* C21 witness: a window of three data points that each pass the three
\* aggression tests, analysed with the aggression level 1.
C21_Witness ==
    /\ tuner_call.fn = "_analyze_driving_patterns"
    /\ tuner_result # TunerNotRun
    /\ Len(tuner_call.window) = 3
    /\ tuner_result.aggression_level.num = 9
    /\ tuner_result.aggression_level.den = 9

\* a fraction exceeds p percent
Exceeds(score, p) == 100 * score.num > p * score.den

\* C22: the selection goes by strict priority on the scores: aggression
\* above 0.7 gives the performance adjustment; otherwise efficiency above
\* 0.7 gives the efficiency adjustment; otherwise both above 0.6 give the
\* driveability adjustment; otherwise the adaptive adjustment; every pair of
\* scores gets exactly one of them.
C22_SelectionByPriority ==
    (tuner_call.fn = "recommend" /\ tuner_result # TunerNotRun)
        => LET aggression == tuner_call.analysis.aggression_level
               efficiency == tuner_call.analysis.efficiency_score
           IN /\ tuner_result.kind = "adjustment"
              /\ tuner_result.category \in
                     {"performance", "efficiency", "driveability",
                      "adaptation"}
              /\ tuner_result.category = "performance"
                     <=> Exceeds(aggression, 70)
              /\ tuner_result.category = "efficiency"
                     <=> ~Exceeds(aggression, 70) /\ Exceeds(efficiency, 70)
              /\ tuner_result.category = "driveability"
                     <=> /\ ~Exceeds(aggression, 70)
                         /\ ~Exceeds(efficiency, 70)
                         /\ Exceeds(aggression, 60)
                         /\ Exceeds(efficiency, 60)
              /\ tuner_result.parameter =
                     AdjustedParameter(tuner_result.category)

\* C22 witness: both scores above 0.7, and the performance adjustment
\* selected.
C22_Witness ==
    /\ tuner_call.fn = "recommend"
    /\ tuner_result # TunerNotRun
    /\ Exceeds(tuner_call.analysis.aggression_level, 70)
    /\ Exceeds(tuner_call.analysis.efficiency_score, 70)
    /\ tuner_result.category = "performance"

(***************************************************************************)
(* Claims about the recommendations of a session (checked under            *)
(* SpecTuner).                                                             *)
(***************************************************************************)
\* the last call obtained an adjustment from the recommendation
GotAdjustment == tuner_return.adjustment # NoAdjustment

\* C23 (as claimed): no adjustment is returned when fewer than 50 data points
\* have been collected, and none when no learning session is active.
C23_NoneWithoutSession ==
    GotAdjustment
        => /\ Len(driving_data) >= SampleSizeMin
           /\ tuner_return.adjustment.points >= SampleSizeMin
           /\ tuner_return.active

\* C23 (amended): no adjustment is derived from fewer than 50 data points,
\* whoever asks for it; process_driving_data returns None when no learning
\* session is active, while the report obtains its adjustment whether or not
\* a session is active.
C23_NoneBelowMinimum ==
    /\ GotAdjustment
          => /\ Len(driving_data) >= SampleSizeMin
             /\ tuner_return.adjustment.points >= SampleSizeMin
             /\ tuner_return.via \in
                    {"process_driving_data", "generate_ai_tuning_report"}
    /\ (GotAdjustment /\ tuner_return.via = "process_driving_data")
          => tuner_return.active
    /\ (tuner_return.via = "generate_ai_tuning_report"
        /\ Len(driving_data) >= SampleSizeMin)
          => GotAdjustment

\* C23 witness: a report made after the session was stopped, holding an
\* adjustment.
C23_Witness ==
    /\ tuner_return.via = "generate_ai_tuning_report"
    /\ tuner_return.kind = "report"
    /\ ~tuner_return.active
    /\ ~learning_active
    /\ GotAdjustment

(***************************************************************************)
(* Claim about the full-throttle scenario (checked under SpecAdvisor).     *)
(***************************************************************************)
\* C24 (as claimed): 60 data points that each have throttle above 80% and rpm
\* above 5000, whatever their other fields, give an aggression level above
\* 0.7 and a performance adjustment.
C24_FullThrottleIsPerformance ==
    (/\ tuner_call.fn = "_generate_tuning_recommendation"
     /\ Len(tuner_call.window) = ScenarioLength
     /\ tuner_result # TunerNotRun)
        => /\ Exceeds(_analyze_driving_patterns(tuner_call.window)
                          .aggression_level, 70)
           /\ tuner_result # NoAdjustment
           /\ tuner_result.category = "performance"

(***************************************************************************)
(* Claim about the analysis interval (checked under SpecTuner).            *)
(***************************************************************************)
\* C25 (as claimed): between two consecutive analyses triggered by ingest,
\* exactly 100 data points were ingested, for streams of every length.
C25_EveryHundredth ==
    [][(/\ last_analysis # 0
        /\ last_analysis' # 0
        /\ last_analysis' # last_analysis)
           => last_analysis' - last_analysis = AnalysisInterval]_vars

(***************************************************************************)
(* Claim about undecodable responses (checked under SpecObd).              *)
(***************************************************************************)
\* the marker '41 xx' that answers the request of a PID
PidMarker(pid) ==
    IF pid = "010C" THEN <<"4", "1", " ", "0", "C">>
    ELSE <<"4", "1", " ", "0", "5">>

\* C26 (as claimed): a response that cannot be decoded (too short, not hex,
\* or without the marker of the requested parameter) yields no value, so the
\* poll loop omits that parameter and goes on.
C26_UndecodableOmitted ==
    (/\ obd_result # ObdNotRun
     /\ obd_call.fn = "parse_obd_response"
     /\ obd_call.pid \in {"010C", "0105"}
     /\ ~Contains(obd_call.response, PidMarker(obd_call.pid)))
        => obd_result = NoValue

C28_RequestIsModeAndPid ==
    \A i \in DOMAIN cycle_log :
        /\ \A k \in CollectorKeys :
              cycle_log[i].written[k] = KeyPid(k) \o <<"\r", "\n">>
        /\ cycle_log[i].written["rpm"]
              = <<"0", "1", "0", "C", "\r", "\n">>
        /\ cycle_log[i].written["coolant_temp"]
              = <<"0", "1", "0", "5", "\r", "\n">>

(***************************************************************************)
(* Claim about the two trouble-code decoders (checked under SpecDtc).      *)
(***************************************************************************)
\* C29 (as claimed): for every pair of hex bytes b1 b2, _hex_to_dtc(b1, b2)
\* returns what hex_to_dtc returns for the four hex digits b1b2.
C29_DecodersAgree ==
    (dtc_input.fn = "_hex_to_dtc" /\ dtc_output # NotRun
     /\ IsHexText(dtc_input.first_byte) /\ IsHexText(dtc_input.second_byte))
        => dtc_output
               = hex_to_dtc(dtc_input.first_byte \o dtc_input.second_byte)

(***************************************************************************)
(* Claim about the driving context (checked under SpecAdvisor).            *)
(***************************************************************************)
DrivingContexts ==
    {"city_traffic", "highway_cruising", "performance_driving",
     "normal_cruising", "deceleration", "transitional"}

\* C30: the classifier gives every data dict exactly one of the six
\* contexts, by the first test that holds in the order city traffic,
\* highway cruising, performance driving, normal cruising, deceleration;
\* a speed below 30, or no speed at all, is city traffic whatever the other
\* fields, so performance driving and deceleration need a speed of 30 or
\* more.
C30_ContextByFirstMatch ==
    (tuner_call.fn = "_get_driving_context" /\ tuner_result # TunerNotRun)
        => LET rpm == Get(tuner_call.data, "rpm")
               throttle == Get(tuner_call.data, "throttle_position")
               speed == Get(tuner_call.data, "speed")
               boost == Get(tuner_call.data, "boost_pressure")
               context == tuner_result.context
               city == speed < 30
               highway == ~city /\ speed > 80 /\ throttle < 30
               performance ==
                   ~city /\ ~highway /\ throttle > 80 /\ rpm > 4000 /\ boost > 5
               normal ==
                   /\ ~city /\ ~highway /\ ~performance
                   /\ throttle >= 20 /\ throttle <= 60
                   /\ rpm >= 2000 /\ rpm <= 3500
               deceleration ==
                   /\ ~city /\ ~highway /\ ~performance /\ ~normal
                   /\ throttle < 10
           IN /\ context \in DrivingContexts
              /\ (context = "city_traffic") = city
              /\ (context = "highway_cruising") = highway
              /\ (context = "performance_driving") = performance
              /\ (context = "normal_cruising") = normal
              /\ (context = "deceleration") = deceleration
              /\ "speed" \notin DOMAIN tuner_call.data
                    => context = "city_traffic"
              /\ context \in {"performance_driving", "deceleration"}
                    => speed >= 30

\* C30 witness: a dict without speed that has the throttle, rpm and boost
\* of performance driving, classified as city traffic.
C30_Witness ==
    /\ tuner_call.fn = "_get_driving_context"
    /\ tuner_result # TunerNotRun
    /\ "speed" \notin DOMAIN tuner_call.data
    /\ Get(tuner_call.data, "throttle_position") > 80
    /\ Get(tuner_call.data, "rpm") > 4000
    /\ Get(tuner_call.data, "boost_pressure") > 5
    /\ tuner_result.context = "city_traffic"

====
